---- MODULE Spec2Model ----
(***************************************************************************)
(* Client-side data consistency layer of RocketTechSolution:               *)
(*   ApiCache        (apiCache.ts)        TTL cache with refresh-ahead     *)
(*   DatabaseMonitor (dbMonitor.ts)       operation telemetry              *)
(*   CaseStudiesApi  (caseStudiesApi.ts)  instrumented remote client       *)
(* Time is in milliseconds, as in the source (Date.now()).                 *)
(***************************************************************************)
EXTENDS Integers, Sequences, FiniteSets, TLC

VARIABLES
  now,        \* Date.now() / performance.now()
  cache,      \* ApiCache.cache : Map<string, CacheItem>
  pending,    \* fetchFn invocations of getOrFetch that have not settled yet
  nfetch,     \* number of fetchFn invocations started so far
  last,       \* outcome of the last step (what the caller observed)
  written     \* history: per key, the arguments of the last set() call not
              \* followed by delete()/clear(), or NoWrite

VARIABLES
  requests,   \* HTTP requests issued by makeRequest and not settled yet
  nreq,       \* number of HTTP requests issued so far
  kvList,     \* remote store: the array under kv key "case_studies"
  kvItem,     \* remote store: the records under kv keys "case_study_<id>"
  wcount,     \* remote store: number of writes applied so far
  operations, \* DatabaseMonitor.operations, newest first
  starts,     \* DatabaseMonitor "_start_<id>" properties: token -> start data
  nextOp,     \* number of ids handed out by DatabaseMonitor.generateId
  metrics,    \* PerformanceMonitor.metrics
  healthCache,\* CaseStudiesApi.healthCache
  floor       \* history: per id, the revision returned by the last
              \* updateCaseStudy(id) that reported success

VARIABLES
  localStore, \* localStorage item "allSolutions_cases" (the local mirror)
  sync,       \* the CaseStudiesSync call in progress, or the last one made
  calls       \* the callbacks (onProgress, onError, onSuccess) that call
              \* has invoked so far, in order

VARIABLES
  measuring,  \* measureAsync calls whose asyncFn has not settled yet
  nmeasure    \* number of measurements started in the recorder model

VARIABLES
  handlers    \* remote store: the route handlers started so far, each with
              \* its position between its kv calls

cacheModelVars == <<pending, nfetch, written>>
serverVars == <<handlers>>
perfVars == <<measuring, nmeasure>>
syncVars == <<localStore, sync, calls>>
apiVars == <<requests, nreq, kvList, kvItem, wcount, operations, starts,
             nextOp, metrics, perfVars, serverVars, healthCache, floor,
             syncVars>>
vars == <<now, cache, last, cacheModelVars, apiVars>>

----------------------------------------------------------------------------
(* Bounds of the model *)

TickMs == 100000         \* the clock advances in steps of this many ms
MaxTicks == 4            \* number of clock steps explored
MaxFetches == 2          \* fetchFn invocations explored in the cache model
MaxVal == 1              \* values stored by set() are 1..MaxVal
MaxRequests == 2         \* HTTP requests explored in the client model
MaxInflight == 2         \* HTTP requests in flight at the same time
ApiMaxTicks == 1         \* clock steps explored in the client model
MaxId == 1               \* ids 1..MaxId are the ones the client asks for
MaxMonitorIds == 3       \* ids generateId hands out in the monitor model
MaxSyncRuns == 2         \* CaseStudiesSync calls explored in the sync model
MonMaxTicks == 1         \* clock steps explored in the monitor model
MaxMeasures == 3         \* measurements started in the recorder model
PerfMaxTicks == 1        \* clock steps explored in the recorder model

----------------------------------------------------------------------------
(* apiCache.ts constants *)

CACHE_TTL_MEDIUM == 5 * 60 * 1000
CACHE_TTL_SHORT == 30 * 1000
defaultTTL == 5 * 60 * 1000
\* refreshThreshold default 0.8, in percent
DefaultRefreshThreshold == 80

CACHE_KEYS_CASE_STUDIES == <<"case_studies", 0>>
CACHE_KEYS_CASE_STUDY(id) == <<"case_study", id>>
CACHE_KEYS_STATS == <<"case_studies_stats", 0>>
CACHE_KEYS_HOMEPAGE_SOLUTIONS == <<"homepage_solutions", 0>>

\* keys, ttls and thresholds the cache model is exercised with
CacheKeys == {CACHE_KEYS_CASE_STUDIES, CACHE_KEYS_STATS}
TTLs == {CACHE_TTL_SHORT, CACHE_TTL_MEDIUM}
Thresholds == {50, DefaultRefreshThreshold}
Values == 1..MaxVal
Null == 0

----------------------------------------------------------------------------
(* ApiCache: the map operations, as functions of the map and the clock *)

EmptyMap == [k \in {} |-> Null]

Remove(c, ks) == [k \in (DOMAIN c) \ ks |-> c[k]]

CacheItem_defaultTtl(data, ttl, t) ==
  [data |-> data, timestamp |-> t, expiry |-> t + defaultTTL]

\* CacheItem built by set(): timestamp = Date.now(), expiry = Date.now() + ttl
CacheItem(data, ttl, t) == [data |-> data, timestamp |-> t, expiry |-> t + ttl]

IsExpired_ge(item, t) == t >= item.expiry

\* the expiry test of get(), has() and cleanup(): Date.now() > item.expiry
IsExpired(item, t) == t > item.expiry

\* a sweep that also takes the entries whose expiry is now
cleanup_ge(c, t) == Remove(c, {k \in DOMAIN c : t >= c[k].expiry})

\* cleanup(): deletes every entry with now > item.expiry
cleanup(c, t) == Remove(c, {k \in DOMAIN c : IsExpired(c[k], t)})

set(c, key, data, ttl, t) ==
  cleanup([k \in (DOMAIN c) \cup {key} |->
             IF k = key THEN CacheItem(data, ttl, t) ELSE c[k]], t)

\* a get() that pushes the expiry of the entry it reads (sliding expiry)
get_touch(c, key, t) ==
  IF key \notin DOMAIN c THEN [value |-> Null, cache |-> c]
  ELSE IF IsExpired(c[key], t) THEN [value |-> Null, cache |-> Remove(c, {key})]
  ELSE [value |-> c[key].data,
        cache |-> [c EXCEPT ![key].expiry = t + (c[key].expiry - c[key].timestamp)]]

\* get(): the value returned and the map it leaves
get(c, key, t) ==
  IF key \notin DOMAIN c THEN [value |-> Null, cache |-> c]
  ELSE IF IsExpired(c[key], t) THEN [value |-> Null, cache |-> Remove(c, {key})]
  ELSE [value |-> c[key].data, cache |-> c]

has(c, key, t) ==
  IF key \notin DOMAIN c THEN [value |-> FALSE, cache |-> c]
  ELSE IF IsExpired(c[key], t) THEN [value |-> FALSE, cache |-> Remove(c, {key})]
  ELSE [value |-> TRUE, cache |-> c]

delete(c, key) == Remove(c, {key})

clear(c) == EmptyMap

\* getOrFetch: const cached = this.cache.get(key); if (cached) ...
\* (the raw map lookup: the clock t is not consulted)
HasCached(c, key, t) == key \in DOMAIN c

\* getOrFetch: timeRemaining < ttl * refreshThreshold (threshold in percent)
NeedsRefresh(timeRemaining, ttl, thr) == timeRemaining * 100 < ttl * thr

RefreshRaises_uncaught == TRUE

\* refreshInBackground: catch (error) { console.warn(...) } swallows the error
RefreshRaises == FALSE

----------------------------------------------------------------------------
(* What the caller of the last step observed: the operation, its          *)
(* arguments, the value returned, whether it raised, and the number of the *)
(* fetchFn invocation it started or settled (0 when none).                 *)

Ev(op, key, ttl, thr, value, raised, started, awaited) ==
  [op |-> op, key |-> key, ttl |-> ttl, thr |-> thr, value |-> value,
   raised |-> raised, started |-> started, awaited |-> awaited]

NoWrite == [v |-> Null, at |-> 0, ttl |-> 0]
Written(w, key, v, ttl, t) == [w EXCEPT ![key] = [v |-> v, at |-> t, ttl |-> ttl]]

\* fetchFn number fid resolves to a value no set() call stores
FetchValue(fid) == MaxVal + fid

----------------------------------------------------------------------------
(* DatabaseMonitor (dbMonitor.ts) *)

maxOperations == 100
NoCount == -1            \* recordCount: undefined

\* logOperation without the slice
logOperation_unbounded(ops, id, t, type, duration, success, recordCount, error, details) ==
  <<[id |-> id, timestamp |-> t, type |-> type, duration |-> duration,
     success |-> success, recordCount |-> recordCount, error |-> error,
     details |-> details]>> \o ops

\* logOperation: unshift the entry, keep the first maxOperations entries
logOperation(ops, id, t, type, duration, success, recordCount, error, details) ==
  LET entry == [id |-> id, timestamp |-> t, type |-> type,
                duration |-> duration, success |-> success,
                recordCount |-> recordCount, error |-> error,
                details |-> details]
      all == <<entry>> \o ops
  IN IF Len(all) > maxOperations THEN SubSeq(all, 1, maxOperations) ELSE all

\* startOperation: this["_start_" + id] = { startTime, type, details }
startOperation(sts, id, t, type, details) ==
  [k \in (DOMAIN sts) \cup {id} |->
     IF k = id THEN [startTime |-> t, type |-> type, details |-> details]
     ELSE sts[k]]

\* completeOperation: the start data left behind
completeOperation_leak(sts, id) == sts

completeOperation_starts(sts, id) == [k \in (DOMAIN sts) \ {id} |-> sts[k]]

\* completeOperation logging a fixed type instead of startData.type
completeOperation_ops_anyKind(ops, sts, id, logId, t, success, recordCount, error) ==
  IF id \notin DOMAIN sts THEN ops
  ELSE logOperation(ops, logId, t, "read", t - sts[id].startTime,
                    success, recordCount, error, sts[id].details)

\* completeOperation: the operations left behind (logId is the id that
\* logOperation generates for the entry)
completeOperation_ops(ops, sts, id, logId, t, success, recordCount, error) ==
  IF id \notin DOMAIN sts THEN ops
  ELSE logOperation(ops, logId, t, sts[id].type, t - sts[id].startTime,
                    success, recordCount, error, sts[id].details)

----------------------------------------------------------------------------
(* PerformanceMonitor (performanceMonitor.ts) *)

maxMetrics == 100
NoDuration == -1         \* duration: undefined; endTime undefined is 0

\* a slice from the front of the array
startMeasure_keepFirst(ms, name, t) ==
  LET all == Append(ms, [name |-> name, startTime |-> t, endTime |-> 0,
                         duration |-> NoDuration])
  IN IF Len(all) > maxMetrics THEN SubSeq(all, 1, maxMetrics) ELSE all

\* startMeasure: push, then this.metrics.slice(-this.maxMetrics)
startMeasure(ms, name, t) ==
  LET all == Append(ms, [name |-> name, startTime |-> t, endTime |-> 0,
                         duration |-> NoDuration])
  IN IF Len(all) > maxMetrics
     THEN SubSeq(all, Len(all) - maxMetrics + 1, Len(all)) ELSE all

\* endMeasure: the first metric with this name and a falsy endTime
endMeasure(ms, name, t) ==
  LET open == {i \in 1..Len(ms) : ms[i].name = name /\ ms[i].endTime = 0}
  IN IF open = {} THEN ms
     ELSE LET i == CHOOSE j \in open : \A k \in open : j <= k
          IN [ms EXCEPT ![i] = [name |-> ms[i].name,
                                startTime |-> ms[i].startTime,
                                endTime |-> t,
                                duration |-> t - ms[i].startTime]]

\* what endMeasure returns: metric.duration, or null (NoDuration)
endMeasure_return(ms, name, t) ==
  LET open == {i \in 1..Len(ms) : ms[i].name = name /\ ms[i].endTime = 0}
  IN IF open = {} THEN NoDuration
     ELSE LET i == CHOOSE j \in open : \A k \in open : j <= k
          IN t - ms[i].startTime

\* what startMeasure returns: `${name}_${metric.startTime}`; a text is the
\* tuple of its parts, a name is a text of one part
startMeasure_return(name, t) == name \o <<"_", t>>

----------------------------------------------------------------------------
(* Remote store: the request handlers of the server (supabase function).   *)
(* A record is its id, the number of the write that produced its current   *)
(* timestamps (rev), its iconName and its title; a JSON body is what the   *)
(* client reads from it.                                                    *)

\* iconName and title of the records the model creates; the title stands
\* for the domain fields of a case study
DefaultIconName == "Bot"
DefaultTitle == "Chatbot"

CaseStudy(id, rev, iconName, title) ==
  [id |-> id, rev |-> rev, iconName |-> iconName, title |-> title]

Rec(id, rev) == CaseStudy(id, rev, DefaultIconName, DefaultTitle)

JsonBody(success, shape, data, error) ==
  [parsable |-> TRUE, success |-> success, shape |-> shape, data |-> data,
   error |-> error]
Unparsable ==
  [parsable |-> FALSE, success |-> FALSE, shape |-> "none", data |-> <<>>,
   error |-> ""]

Http(status, body) ==
  [kind |-> "http", ok |-> (status >= 200 /\ status < 300),
   status |-> status, body |-> body]
Rejected == [kind |-> "reject", ok |-> FALSE, status |-> 0, body |-> Unparsable]
NoResp == [kind |-> "none", ok |-> FALSE, status |-> 0, body |-> Unparsable]

Handled(resp, list, item, wrote) ==
  [resp |-> resp, list |-> list, item |-> item, wrote |-> wrote]

PutItem(item, rec) ==
  [k \in (DOMAIN item) \cup {rec.id} |-> IF k = rec.id THEN rec ELSE item[k]]

\* id: body.id || `case-${Date.now()}`; the client's create sends no id
NewId(wc) == MaxId + wc + 1

\* the statistics object, represented by its totalCases
StatsOf(list) == Rec(0, Len(list))

\* GET /casestudies
GetAllHandler(list, item) ==
  Handled(Http(200, JsonBody(TRUE, "array", list, "")), list, item, FALSE)

\* GET /casestudies/:id
GetOneHandler(list, item, id) ==
  IF id \notin DOMAIN item
  THEN Handled(Http(404, JsonBody(FALSE, "none", <<>>, "Case study not found")),
               list, item, FALSE)
  ELSE Handled(Http(200, JsonBody(TRUE, "object", <<item[id]>>, "")),
               list, item, FALSE)

\* POST /casestudies
PostHandler(list, item, wc) ==
  LET caseStudy == Rec(NewId(wc), wc + 1)
  IN Handled(Http(200, JsonBody(TRUE, "object", <<caseStudy>>, "")),
             Append(list, caseStudy), PutItem(item, caseStudy), TRUE)

\* PUT /casestudies/:id
PutHandler(list, item, wc, id) ==
  LET found == {i \in 1..Len(list) : list[i].id = id}
  IN IF found = {}
     THEN Handled(Http(404, JsonBody(FALSE, "none", <<>>, "Case study not found")),
                  list, item, FALSE)
     ELSE LET caseIndex == CHOOSE i \in found : \A j \in found : i <= j
              updatedCase == [list[caseIndex] EXCEPT !.rev = wc + 1]
          IN Handled(Http(200, JsonBody(TRUE, "object", <<updatedCase>>, "")),
                     [list EXCEPT ![caseIndex] = updatedCase],
                     PutItem(item, updatedCase), TRUE)

\* DELETE /casestudies/:id
DeleteHandler(list, item, id) ==
  LET keep(r) == r.id # id
      filteredCases == SelectSeq(list, keep)
  IN IF Len(filteredCases) = Len(list)
     THEN Handled(Http(404, JsonBody(FALSE, "none", <<>>, "Case study not found")),
                  list, item, FALSE)
     ELSE Handled(Http(200, JsonBody(TRUE, "none", <<>>, "")),
                  filteredCases, [k \in (DOMAIN item) \ {id} |-> item[k]], TRUE)

RECURSIVE PutItems(_, _)
PutItems(item, recs) ==
  IF recs = <<>> THEN item
  ELSE PutItems(PutItem(item, Head(recs)), Tail(recs))

\* PUT /casestudies (bulk update)
BulkHandler(list, item, wc, caseStudies) ==
  LET updatedCases == [i \in 1..Len(caseStudies) |->
                         [caseStudies[i] EXCEPT !.rev = wc + 1]]
  IN Handled(Http(200, JsonBody(TRUE, "array", updatedCases, "")),
             updatedCases, PutItems(item, updatedCases), TRUE)

\* GET /case-studies/stats
StatsHandler(list, item) ==
  Handled(Http(200, JsonBody(TRUE, "object", <<StatsOf(list)>>, "")),
          list, item, FALSE)

\* GET /health (its kv key health_check_test is not part of the collection)
HealthHandler(list, item) ==
  Handled(Http(200, JsonBody(TRUE, "none", <<>>, "")), list, item, FALSE)

\* the error text of each handler's catch block
HandlerErrorText(op) ==
  CASE op = "getAllCaseStudies" -> "Failed to fetch case studies"
    [] op = "getCaseStudy" -> "Failed to fetch case study"
    [] op = "createCaseStudy" -> "Failed to create case study"
    [] op = "updateCaseStudy" -> "Failed to update case study"
    [] op = "deleteCaseStudy" -> "Failed to delete case study"
    [] op = "bulkUpdateCaseStudies" -> "Failed to bulk update case studies"
    [] op = "getStatistics" -> "Failed to get case studies statistics"
    [] OTHER -> "Unknown error"

Handler(op, id, payload, list, item, wc) ==
  CASE op = "getAllCaseStudies" -> GetAllHandler(list, item)
    [] op = "getCaseStudy" -> GetOneHandler(list, item, id)
    [] op = "createCaseStudy" -> PostHandler(list, item, wc)
    [] op = "updateCaseStudy" -> PutHandler(list, item, wc, id)
    [] op = "deleteCaseStudy" -> DeleteHandler(list, item, id)
    [] op = "bulkUpdateCaseStudies" -> BulkHandler(list, item, wc, payload)
    [] op = "getStatistics" -> StatsHandler(list, item)
    [] OTHER -> HealthHandler(list, item)

\* a write handler whose first kv.set (the list) succeeded and whose next
\* kv call threw: the list is written, the per-id records are not, and the
\* catch block answers 500
PartwayHandler(op, id, payload, list, item, wc) ==
  LET h == Handler(op, id, payload, list, item, wc)
  IN IF h.wrote
     THEN Handled(Http(500, JsonBody(FALSE, "none", <<>>, HandlerErrorText(op))),
                  h.list, item, TRUE)
     ELSE Handled(Http(500, JsonBody(FALSE, "none", <<>>, HandlerErrorText(op))),
                  list, item, FALSE)

\* what can come back for a request: the handler's answer, its catch block
\* (kv failure before or after the first kv.set), a non-2xx or a 2xx answer
\* whose body is not JSON
Outcomes == {"handled", "kvError", "kvErrorPartway", "badGateway", "garbled"}

Answer(outcome, op, id, payload, list, item, wc) ==
  CASE outcome = "handled" -> Handler(op, id, payload, list, item, wc)
    [] outcome = "kvError" ->
         Handled(Http(500, JsonBody(FALSE, "none", <<>>, HandlerErrorText(op))),
                 list, item, FALSE)
    [] outcome = "kvErrorPartway" ->
         PartwayHandler(op, id, payload, list, item, wc)
    [] outcome = "badGateway" -> Handled(Http(502, Unparsable), list, item, FALSE)
    [] OTHER -> Handled(Http(200, Unparsable), list, item, FALSE)

\* contents of the store when the client starts
SeedStore == <<Rec(1, 0)>>

----------------------------------------------------------------------------
(* CaseStudiesApi (caseStudiesApi.ts): makeRequest *)

HEALTH_CACHE_DURATION == 60000

\* operationType of makeRequest
operationType(method) ==
  IF method = "POST" \/ method = "PUT" THEN "write"
  ELSE IF method = "DELETE" THEN "delete" ELSE "read"

HttpStatusMessage(status) ==
  CASE status = 400 -> "HTTP error! status: 400"
    [] status = 404 -> "HTTP error! status: 404"
    [] status = 500 -> "HTTP error! status: 500"
    [] OTHER -> "HTTP error! status: 502"

\* the uniform envelope { success, data?, error? }
Envelope(success, shape, data, error) ==
  [success |-> success, shape |-> shape, data |-> data, error |-> error]

\* healthCache = null; storedAt is the time of the assignment (history)
NoHealth ==
  [result |-> Envelope(FALSE, "none", <<>>, ""), timestamp |-> -1,
   storedAt |-> -1]

HealthCacheValid_noExpiry(hc, t) == hc # NoHealth

\* this.healthCache && (now - this.healthCache.timestamp) < HEALTH_CACHE_DURATION
HealthCacheValid(hc, t) ==
  hc # NoHealth /\ t - hc.timestamp < HEALTH_CACHE_DURATION

\* message of the error thrown by fetch() / response.json()
FetchRejectionMessage == "Failed to fetch"
JsonParseMessage == "Unexpected token < in JSON"

\* the try block of makeRequest: either it throws (message) or it returns
\* the parsed body and closes the monitor token with (success, recordCount)
TryBlock(resp) ==
  IF resp.kind = "reject"
  THEN [threw |-> TRUE, message |-> FetchRejectionMessage]
  ELSE IF ~resp.ok
  THEN [threw |-> TRUE,
        message |-> IF resp.body.parsable /\ resp.body.error # ""
                    THEN resp.body.error
                    ELSE HttpStatusMessage(resp.status)]
  ELSE IF ~resp.body.parsable
  THEN [threw |-> TRUE, message |-> JsonParseMessage]
  ELSE [threw |-> FALSE, message |-> ""]

CatchBlock_rethrow(message) ==
  [raised |-> TRUE, result |-> Envelope(FALSE, "none", <<>>, message),
   success |-> FALSE, recordCount |-> 0, error |-> message]

\* the catch block of makeRequest
CatchBlock(message) ==
  [raised |-> FALSE, result |-> Envelope(FALSE, "none", <<>>, message),
   success |-> FALSE, recordCount |-> 0, error |-> message]

\* recordCount of makeRequest
RecordCount(body) ==
  IF body.success /\ body.shape # "none"
  THEN IF body.shape = "array" THEN Len(body.data) ELSE 1
  ELSE NoCount

\* makeRequest from the answer on: what it returns and what it reports to
\* dbMonitor.completeOperation
makeRequest(resp) ==
  IF TryBlock(resp).threw THEN CatchBlock(TryBlock(resp).message)
  ELSE [raised |-> FALSE,
        result |-> Envelope(resp.body.success, resp.body.shape,
                            resp.body.data, resp.body.error),
        success |-> resp.body.success,
        recordCount |-> RecordCount(resp.body),
        error |-> resp.body.error]

----------------------------------------------------------------------------
(* CaseStudiesSync (caseStudiesSync.ts): conversions and the local mirror. *)
(* A React component is represented by a number; iconMapping has the keys  *)
(* "Bot" and "MessageSquare".                                              *)

MessageSquareIcon == 2

\* this.iconMapping[name] || this.iconMapping['MessageSquare']
IconOf(iconName) == IF iconName = "Bot" THEN 1 ELSE MessageSquareIcon

\* Object.keys(this.iconMapping).find(key => this.iconMapping[key] === icon)
\*   || 'MessageSquare'
IconNameOf(icon) == IF icon = 1 THEN "Bot" ELSE "MessageSquare"

\* apiToLocal: { ...apiCase, icon }
apiToLocal(apiCase) ==
  [id |-> apiCase.id, rev |-> apiCase.rev, iconName |-> apiCase.iconName,
   title |-> apiCase.title, icon |-> IconOf(apiCase.iconName)]

\* syncToDatabase: { ...this.localToApi(localCase), id, createdAt, updatedAt }
localToApi(localCase) ==
  [id |-> localCase.id, rev |-> localCase.rev,
   iconName |-> IconNameOf(localCase.icon), title |-> localCase.title]

\* the local mirror: valid is FALSE when the item is absent or is no array
Mirror(valid, cases) == [valid |-> valid, cases |-> cases]

\* getLocalCases: [] when unreadable, else each saved record with its icon
getLocalCases(store) ==
  IF ~store.valid THEN <<>>
  ELSE [i \in 1..Len(store.cases) |->
          [id |-> store.cases[i].id, rev |-> store.cases[i].rev,
           iconName |-> store.cases[i].iconName,
           title |-> store.cases[i].title,
           icon |-> IconOf(store.cases[i].iconName)]]

\* saveLocalCases: what setJSON stores (JSON keeps no component)
saveLocalCases(cases) ==
  Mirror(TRUE, [i \in 1..Len(cases) |->
                  [id |-> cases[i].id, rev |-> cases[i].rev,
                   iconName |-> IconNameOf(cases[i].icon),
                   title |-> cases[i].title]])

\* recommendation of getSyncStatus from the two counts
Recommendation_noConflict(localCount, databaseCount) ==
  IF localCount = 0 /\ databaseCount = 0 THEN "noSyncNeeded"
  ELSE IF localCount > 0 /\ databaseCount = 0 THEN "syncToDb"
  ELSE IF localCount = 0 /\ databaseCount > 0 THEN "syncFromDb"
  ELSE "noSyncNeeded"

Recommendation(localCount, databaseCount) ==
  IF localCount = 0 /\ databaseCount = 0 THEN "noSyncNeeded"
  ELSE IF localCount > 0 /\ databaseCount = 0 THEN "syncToDb"
  ELSE IF localCount = 0 /\ databaseCount > 0 THEN "syncFromDb"
  ELSE IF localCount # databaseCount THEN "conflict"
  ELSE "noSyncNeeded"

\* lastUpdated: the latest timestamp of a collection, undefined when empty
NoTimestamp == -1
LastUpdated(cases) ==
  IF Len(cases) = 0 THEN NoTimestamp
  ELSE LET revs == {cases[i].rev : i \in 1..Len(cases)}
       IN CHOOSE x \in revs : \A y \in revs : y <= x

SyncStatus(localCount, localLastUpdated, databaseCount, databaseLastUpdated) ==
  [localCount |-> localCount, localLastUpdated |-> localLastUpdated,
   databaseCount |-> databaseCount,
   databaseLastUpdated |-> databaseLastUpdated,
   recommendation |-> Recommendation(localCount, databaseCount)]

NoStatus ==
  [localCount |-> 0, localLastUpdated |-> NoTimestamp, databaseCount |-> 0,
   databaseLastUpdated |-> NoTimestamp, recommendation |-> ""]

\* no CaseStudiesSync call made yet; the pre* fields keep the collections as
\* they were when the call started, the prev* fields the call made before
NoSync ==
  [op |-> "none", pc |-> "idle", inner |-> "", awaiting |-> 0, inbox |-> <<>>,
   localCases |-> <<>>, outcome |-> "none", direction |-> "", result |-> <<>>,
   status |-> NoStatus, failed |-> FALSE, pushed |-> FALSE, saved |-> FALSE,
   preLocal |-> Mirror(TRUE, <<>>), preList |-> <<>>, preItem |-> EmptyMap,
   idsBefore |-> 0, run |-> 0,
   prevOp |-> "none", prevOk |-> FALSE, prevLocal |-> Mirror(TRUE, <<>>)]

InitApiVars ==
  /\ localStore = Mirror(TRUE, <<>>)
  /\ sync = NoSync
  /\ calls = <<>>
  /\ requests = {}
  /\ nreq = 0
  /\ kvList = SeedStore
  /\ kvItem = PutItems(EmptyMap, SeedStore)
  /\ wcount = 0
  /\ operations = <<>>
  /\ starts = EmptyMap
  /\ nextOp = 0
  /\ metrics = <<>>
  /\ measuring = {}
  /\ nmeasure = 0
  /\ handlers = {}
  /\ healthCache = NoHealth
  /\ floor = [i \in 1..MaxId |-> 0]

----------------------------------------------------------------------------
(* Cache model: the ApiCache driven by callers with an arbitrary fetchFn *)

InitCache ==
  /\ now = TickMs
  /\ cache = EmptyMap
  /\ pending = {}
  /\ nfetch = 0
  /\ last = Ev("init", CACHE_KEYS_CASE_STUDIES, 0, 0, Null, FALSE, 0, FALSE)
  /\ written = [k \in CacheKeys |-> NoWrite]
  /\ InitApiVars

Tick ==
  /\ now < TickMs * (MaxTicks + 1)
  /\ now' = now + TickMs
  /\ last' = Ev("tick", CACHE_KEYS_CASE_STUDIES, 0, 0, Null, FALSE, 0, FALSE)
  /\ UNCHANGED <<cache, pending, nfetch, written, apiVars>>

CallSet(key, v, ttl) ==
  /\ cache' = set(cache, key, v, ttl, now)
  /\ last' = Ev("set", key, ttl, 0, v, FALSE, 0, FALSE)
  /\ written' = Written(written, key, v, ttl, now)
  /\ UNCHANGED <<now, pending, nfetch, apiVars>>

CallGet(key) ==
  /\ cache' = get(cache, key, now).cache
  /\ last' = Ev("get", key, 0, 0, get(cache, key, now).value, FALSE, 0, FALSE)
  /\ UNCHANGED <<now, pending, nfetch, written, apiVars>>

CallHas(key) ==
  /\ cache' = has(cache, key, now).cache
  /\ last' = Ev("has", key, 0, 0,
                IF has(cache, key, now).value THEN 1 ELSE 0, FALSE, 0, FALSE)
  /\ UNCHANGED <<now, pending, nfetch, written, apiVars>>

CallDelete(key) ==
  /\ cache' = delete(cache, key)
  /\ last' = Ev("delete", key, 0, 0, Null, FALSE, 0, FALSE)
  /\ written' = [written EXCEPT ![key] = NoWrite]
  /\ UNCHANGED <<now, pending, nfetch, apiVars>>

CallClear ==
  /\ cache' = clear(cache)
  /\ last' = Ev("clear", CACHE_KEYS_CASE_STUDIES, 0, 0, Null, FALSE, 0, FALSE)
  /\ written' = [k \in CacheKeys |-> NoWrite]
  /\ UNCHANGED <<now, pending, nfetch, apiVars>>

\* getOrFetch on a key the map holds: returns cached.data at once, after
\* possibly starting refreshInBackground (which calls fetchFn synchronously)
GetOrFetchCached(key, ttl, thr) ==
  /\ HasCached(cache, key, now)
  /\ LET refresh == NeedsRefresh(cache[key].expiry - now, ttl, thr)
     IN /\ refresh => nfetch < MaxFetches
        /\ nfetch' = IF refresh THEN nfetch + 1 ELSE nfetch
        /\ pending' = IF refresh
                      THEN pending \cup {[fid |-> nfetch + 1, key |-> key,
                                          ttl |-> ttl, mode |-> "background"]}
                      ELSE pending
        /\ last' = Ev("getOrFetch", key, ttl, thr, cache[key].data, FALSE,
                      IF refresh THEN nfetch + 1 ELSE 0, FALSE)
  /\ UNCHANGED <<now, cache, written, apiVars>>

\* getOrFetch on a key the map does not hold: calls fetchFn and awaits it
GetOrFetchMiss(key, ttl, thr) ==
  /\ ~HasCached(cache, key, now)
  /\ nfetch < MaxFetches
  /\ nfetch' = nfetch + 1
  /\ pending' = pending \cup {[fid |-> nfetch + 1, key |-> key,
                               ttl |-> ttl, mode |-> "await"]}
  /\ last' = Ev("fetchStarted", key, ttl, thr, Null, FALSE, nfetch + 1, TRUE)
  /\ UNCHANGED <<now, cache, written, apiVars>>

\* fetchFn resolves: this.set(key, data, ttl); the awaiting caller gets data
FetchResolve(f) ==
  /\ f \in pending
  /\ pending' = pending \ {f}
  /\ cache' = set(cache, f.key, FetchValue(f.fid), f.ttl, now)
  /\ last' = Ev(IF f.mode = "await" THEN "fetched" ELSE "refreshed",
                f.key, f.ttl, 0, FetchValue(f.fid), FALSE, f.fid,
                f.mode = "await")
  /\ written' = Written(written, f.key, FetchValue(f.fid), f.ttl, now)
  /\ UNCHANGED <<now, nfetch, apiVars>>

\* fetchFn rejects: getOrFetch rethrows to its caller, refreshInBackground
\* logs and swallows
FetchReject(f) ==
  /\ f \in pending
  /\ pending' = pending \ {f}
  /\ last' = Ev(IF f.mode = "await" THEN "fetchFailed" ELSE "refreshFailed",
                f.key, f.ttl, 0, Null,
                IF f.mode = "await" THEN TRUE ELSE RefreshRaises, f.fid,
                f.mode = "await")
  /\ UNCHANGED <<now, cache, nfetch, written, apiVars>>

NextCache ==
  \/ Tick
  \/ \E k \in CacheKeys, v \in Values, t \in TTLs : CallSet(k, v, t)
  \/ \E k \in CacheKeys : CallGet(k)
  \/ \E k \in CacheKeys : CallHas(k)
  \/ \E k \in CacheKeys : CallDelete(k)
  \/ CallClear
  \/ \E k \in CacheKeys, t \in TTLs, th \in Thresholds : GetOrFetchCached(k, t, th)
  \/ \E k \in CacheKeys, t \in TTLs, th \in Thresholds : GetOrFetchMiss(k, t, th)
  \/ \E f \in pending : FetchResolve(f)
  \/ \E f \in pending : FetchReject(f)

SpecCache == InitCache /\ [][NextCache]_vars

----------------------------------------------------------------------------
(* Client model: CaseStudiesApi in front of the remote store, with the     *)
(* ApiCache, the DatabaseMonitor and the PerformanceMonitor it drives.     *)

ApiEv(op, id, returned, result, raised, resp, minRev) ==
  [op |-> op, id |-> id, returned |-> returned, result |-> result,
   raised |-> raised, resp |-> resp, minRev |-> minRev]

NoResult == Envelope(FALSE, "none", <<>>, "")
Quiet(op) == ApiEv(op, 0, FALSE, NoResult, FALSE, NoResp, floor)

Endpoint(op, id) ==
  CASE op = "getStatistics" -> <<"/case-studies/stats", 0>>
    [] op = "healthCheck" -> <<"/health", 0>>
    [] OTHER -> <<"/casestudies", id>>

MeasureName(op) ==
  CASE op = "createCaseStudy" -> "create_case_study"
    [] op = "updateCaseStudy" -> "update_case_study"
    [] op = "deleteCaseStudy" -> "delete_case_study"
    [] OTHER -> "bulk_update_case_studies"

ShouldInvalidate_always(result) == TRUE

\* if (result.success) { apiCache.delete(...) / apiCache.clear() }
ShouldInvalidate(result) == result.success

\* the cache keys each write method invalidates
Invalidate(c, op, id) ==
  CASE op = "createCaseStudy" ->
         delete(delete(c, CACHE_KEYS_CASE_STUDIES), CACHE_KEYS_HOMEPAGE_SOLUTIONS)
    [] op = "bulkUpdateCaseStudies" -> clear(c)
    [] OTHER ->
         delete(delete(delete(c, CACHE_KEYS_CASE_STUDIES),
                       CACHE_KEYS_CASE_STUDY(id)),
                CACHE_KEYS_HOMEPAGE_SOLUTIONS)

InitApi ==
  /\ now = TickMs
  /\ cache = EmptyMap
  /\ pending = {}
  /\ nfetch = 0
  /\ written = [k \in CacheKeys |-> NoWrite]
  /\ InitApiVars
  /\ last = Quiet("init")

TickApi ==
  /\ now < TickMs * (ApiMaxTicks + 1)
  /\ now' = now + TickMs
  /\ last' = Quiet("tick")
  /\ UNCHANGED <<cache, cacheModelVars, apiVars>>

\* makeRequest up to its await fetch(...): dbMonitor.startOperation and the
\* request on the wire
IssueRequest(op, id, method, role, key, ttl, payload) ==
  /\ nreq < MaxRequests
  /\ Cardinality(requests) < MaxInflight
  /\ nreq' = nreq + 1
  /\ nextOp' = nextOp + 1
  /\ starts' = startOperation(starts, nextOp + 1, now, operationType(method),
                              [endpoint |-> Endpoint(op, id),
                               method |-> method, req |-> nreq + 1])
  /\ requests' = requests \cup
       {[rid |-> nreq + 1, op |-> op, id |-> id, method |-> method,
         role |-> role, key |-> key, ttl |-> ttl, payload |-> payload,
         token |-> nextOp + 1, pc |-> "sent", resp |-> NoResp,
         calledAt |-> now, minRev |-> floor]}

\* apiCache.getOrFetch(key, () => this.makeRequest(endpoint), ttl)
ReadThrough(op, id, key, ttl) ==
  /\ IF HasCached(cache, key, now)
     THEN /\ IF NeedsRefresh(cache[key].expiry - now, ttl,
                             DefaultRefreshThreshold)
             THEN IssueRequest(op, id, "GET", "refresh", key, ttl, <<>>)
             ELSE UNCHANGED <<requests, nreq, nextOp, starts>>
          /\ last' = ApiEv(op, id, TRUE, cache[key].data, FALSE, NoResp, floor)
     ELSE /\ IssueRequest(op, id, "GET", "fetch", key, ttl, <<>>)
          /\ last' = Quiet("called")
  /\ UNCHANGED <<now, cache, cacheModelVars, kvList, kvItem, wcount,
                 operations, metrics, perfVars, serverVars, healthCache, floor>>

getAllCaseStudies ==
  /\ ReadThrough("getAllCaseStudies", 0, CACHE_KEYS_CASE_STUDIES,
                 CACHE_TTL_MEDIUM)
  /\ UNCHANGED syncVars

getCaseStudy(id) ==
  /\ ReadThrough("getCaseStudy", id, CACHE_KEYS_CASE_STUDY(id),
                 CACHE_TTL_MEDIUM)
  /\ UNCHANGED syncVars

getStatistics ==
  /\ ReadThrough("getStatistics", 0, CACHE_KEYS_STATS, CACHE_TTL_SHORT)
  /\ UNCHANGED syncVars

\* performanceMonitor.measureAsync(name, () => this.makeRequest(...)) up to
\* the await
WriteCall(op, id, method, payload) ==
  /\ IssueRequest(op, id, method, "write", CACHE_KEYS_CASE_STUDIES, 0, payload)
  /\ metrics' = startMeasure(metrics, MeasureName(op), now)
  /\ UNCHANGED <<perfVars, serverVars>>
  /\ last' = Quiet("called")
  /\ UNCHANGED <<now, cache, cacheModelVars, kvList, kvItem, wcount,
                 operations, healthCache, floor>>

createCaseStudy ==
  /\ WriteCall("createCaseStudy", 0, "POST", <<>>)
  /\ UNCHANGED syncVars

updateCaseStudy(id) ==
  /\ WriteCall("updateCaseStudy", id, "PUT", <<>>)
  /\ UNCHANGED syncVars

deleteCaseStudy(id) ==
  /\ WriteCall("deleteCaseStudy", id, "DELETE", <<>>)
  /\ UNCHANGED syncVars

bulkUpdateCaseStudies(caseStudies) ==
  /\ WriteCall("bulkUpdateCaseStudies", 0, "PUT", caseStudies)
  /\ UNCHANGED syncVars

healthCheck ==
  /\ IF HealthCacheValid(healthCache, now)
     THEN /\ last' = ApiEv("healthCheck", 0, TRUE, healthCache.result, FALSE,
                           NoResp, floor)
          /\ UNCHANGED <<requests, nreq, nextOp, starts>>
     ELSE /\ IssueRequest("healthCheck", 0, "GET", "health",
                          CACHE_KEYS_CASE_STUDIES, 0, <<>>)
          /\ last' = Quiet("called")
  /\ UNCHANGED <<now, cache, cacheModelVars, kvList, kvItem, wcount,
                 operations, metrics, perfVars, serverVars, healthCache, floor, syncVars>>

\* the remote store answers a request
ServerHandle(r, outcome) ==
  /\ r \in requests
  /\ r.pc = "sent"
  /\ LET h == Answer(outcome, r.op, r.id, r.payload, kvList, kvItem, wcount)
     IN /\ requests' = (requests \ {r}) \cup
                         {[r EXCEPT !.pc = "answered", !.resp = h.resp]}
        /\ kvList' = h.list
        /\ kvItem' = h.item
        /\ wcount' = IF h.wrote THEN wcount + 1 ELSE wcount
  /\ last' = Quiet("server")
  /\ UNCHANGED <<now, cache, cacheModelVars, nreq, operations, starts, nextOp,
                 metrics, perfVars, serverVars, healthCache, floor, syncVars>>

Resolve_successOnly(s, rid, result) ==
  IF s.awaiting = rid /\ result.success
  THEN [s EXCEPT !.awaiting = 0, !.inbox = <<result>>]
  ELSE s

\* the promise of an API method resolves with the envelope makeRequest
\* returned, a failure envelope included: the caller awaiting it goes on
Resolve(s, rid, result) ==
  IF s.awaiting = rid
  THEN [s EXCEPT !.awaiting = 0, !.inbox = <<result>>]
  ELSE s

\* makeRequest from the settled fetch() on, and then the method that
\* awaited it: getOrFetch / refreshInBackground store the result, the write
\* methods end their measurement and invalidate, healthCheck stores a
\* successful result; a CaseStudiesSync call awaiting the method gets the
\* result
Settle(r, resp) ==
  LET m == makeRequest(resp) IN
  /\ requests' = requests \ {r}
  /\ operations' = completeOperation_ops(operations, starts, r.token,
                      nextOp + 1, now, m.success, m.recordCount, m.error)
  /\ starts' = completeOperation_starts(starts, r.token)
  /\ nextOp' = IF r.token \in DOMAIN starts THEN nextOp + 1 ELSE nextOp
  /\ cache' =
       IF m.raised THEN cache
       ELSE IF r.role \in {"fetch", "refresh"}
       THEN set(cache, r.key, m.result, r.ttl, now)
       ELSE IF r.role = "write" /\ ShouldInvalidate(m.result)
       THEN Invalidate(cache, r.op, r.id)
       ELSE cache
  /\ metrics' = IF r.role = "write"
                THEN endMeasure(metrics, MeasureName(r.op), now) ELSE metrics
  /\ UNCHANGED <<perfVars, serverVars>>
  /\ healthCache' =
       IF r.role = "health" /\ ~m.raised /\ m.result.success
       THEN [result |-> m.result, timestamp |-> r.calledAt, storedAt |-> now]
       ELSE healthCache
  /\ floor' =
       IF r.op = "updateCaseStudy" /\ ~m.raised /\ m.result.success
          /\ r.id \in DOMAIN floor
       THEN [floor EXCEPT ![r.id] = m.result.data[1].rev]
       ELSE floor
  /\ last' = ApiEv(r.op, r.id, r.role # "refresh", m.result,
                   m.raised /\ r.role # "refresh", resp, r.minRev)
  /\ sync' = Resolve(sync, r.rid, m.result)
  /\ UNCHANGED <<now, cacheModelVars, nreq, kvList, kvItem, wcount,
                 localStore, calls>>

\* the answer reaches the client
Receive(r) ==
  /\ r \in requests
  /\ r.pc = "answered"
  /\ Settle(r, r.resp)

\* fetch() rejects: the request or its answer is lost
NetworkReject(r) ==
  /\ r \in requests
  /\ Settle(r, Rejected)

\* caseStudies arrays the client sends in a bulk update
BulkPayloads == {<<>>, <<Rec(1, 0)>>}

NextApi ==
  \/ TickApi
  \/ getAllCaseStudies
  \/ \E id \in 1..MaxId : getCaseStudy(id)
  \/ getStatistics
  \/ createCaseStudy
  \/ \E id \in 1..MaxId : updateCaseStudy(id)
  \/ \E id \in 1..MaxId : deleteCaseStudy(id)
  \/ \E cs \in BulkPayloads : bulkUpdateCaseStudies(cs)
  \/ healthCheck
  \/ \E r \in requests, o \in Outcomes : ServerHandle(r, o)
  \/ \E r \in requests : Receive(r)
  \/ \E r \in requests : NetworkReject(r)

SpecApi == InitApi /\ [][NextApi]_vars

----------------------------------------------------------------------------
(* Claims about the ApiCache, checked under SpecCache *)

BackgroundFetches(key) ==
  {f \in pending : f.key = key /\ f.mode = "background"}

\* C2 (as claimed): for every cache key at most one background refresh is in
\* flight at any time; a second getOrFetch for the key made before the first
\* refresh completes starts no other fetchFn call.
C2_SingleFlight ==
  \A k \in CacheKeys : Cardinality(BackgroundFetches(k)) <= 1

\* C3 (as claimed): getOrFetch on a key with a live entry starts fetchFn only
\* when the remaining lifetime expiresAt - now is below
\* (1 - refreshThreshold) * ttl.
C3_RefreshOnlyNearExpiry ==
  [][(/\ last'.op = "getOrFetch"
      /\ last'.started # 0
      /\ now <= cache[last'.key].expiry)
     => (cache[last'.key].expiry - now) * 100
           < (100 - last'.thr) * last'.ttl]_vars

\* C4 (as claimed): getOrFetch returns a stored value without awaiting
\* fetchFn only when the entry is live (now <= expiresAt); an expired entry
\* is treated like an absent one.
C4_ExpiredNotServed ==
  [][last'.op = "getOrFetch" => now <= cache[last'.key].expiry]_vars

\* C5: get(k) after set(k, v, t), with no set/delete/clear of k in between,
\* returns v while now <= storedAt + t, and returns absent and removes the
\* entry once now > storedAt + t; has(k) is true exactly when get(k) would
\* return a value.
C5_SetThenGet ==
  /\ last.op = "get" =>
       LET w == written[last.key] IN
       /\ (w # NoWrite /\ now <= w.at + w.ttl) => last.value = w.v
       /\ (w # NoWrite /\ now > w.at + w.ttl) =>
             last.value = Null /\ last.key \notin DOMAIN cache
       /\ w = NoWrite => last.value = Null
  /\ last.op = "has" =>
       /\ (last.value = 1) = (get(cache, last.key, now).value # Null)
       /\ (last.value = 1) = (/\ written[last.key] # NoWrite
                              /\ now <= written[last.key].at
                                          + written[last.key].ttl)

\* a get() made exactly when the medium ttl of the last set() runs out
\* (now = storedAt + ttl) has just returned the stored value
C5_Witness ==
  /\ last.op = "get"
  /\ written[last.key] # NoWrite
  /\ written[last.key].ttl = CACHE_TTL_MEDIUM
  /\ now = written[last.key].at + written[last.key].ttl
  /\ last.value = written[last.key].v

\* C6: getOrFetch on a key without entry awaits fetchFn, stores the result
\* under the key with expiry now + ttl and returns it; when fetchFn fails the
\* error reaches the caller and the cache contents are unchanged.
C6_MissFetch ==
  [][/\ last'.op = "fetchStarted" => last'.key \notin DOMAIN cache
     /\ last'.op = "fetched" =>
          /\ ~last'.raised
          /\ last'.value = FetchValue(last'.started)
          /\ last'.key \in DOMAIN cache'
          /\ cache'[last'.key] = [data |-> last'.value, timestamp |-> now',
                                  expiry |-> now' + last'.ttl]
     /\ last'.op = "fetchFailed" => last'.raised /\ cache' = cache]_vars

\* an awaited fetch with the short ttl has just stored its result
C6_Witness ==
  /\ last.op = "fetched"
  /\ last.ttl = CACHE_TTL_SHORT
  /\ cache[last.key].data = FetchValue(last.started)

\* C7: a background refresh whose fetchFn fails leaves the entry of its key
\* as it was, raises nothing, and the getOrFetch call that started it has
\* returned the cached value.
C7_FailedRefresh ==
  [][/\ last'.op = "refreshFailed" => cache' = cache /\ ~last'.raised
     /\ (last'.op = "getOrFetch" /\ last'.started # 0) =>
          /\ ~last'.raised
          /\ last'.value = cache[last'.key].data
          /\ cache' = cache]_vars

\* a background refresh has just failed while its key still has its entry
C7_Witness ==
  /\ last.op = "refreshFailed"
  /\ last.key \in DOMAIN cache

----------------------------------------------------------------------------
(* Claims about the remote client, checked under SpecApi *)

ReadOps == {"getCaseStudy", "getAllCaseStudies"}
WriteOps == {"createCaseStudy", "updateCaseStudy", "deleteCaseStudy",
             "bulkUpdateCaseStudies"}

\* C1 (as claimed): once updateCaseStudy(id) has returned success, every
\* getCaseStudy(id) and getAllCaseStudies call made later returns data read
\* after the update, never the record as it was before it, whatever fetch
\* or refresh was in flight while the update ran.
C1_NoStaleReadAfterUpdate ==
  (last.op \in ReadOps /\ last.returned /\ ~last.raised /\ last.result.success)
  => \A i \in 1..Len(last.result.data) :
       last.result.data[i].id \in DOMAIN last.minRev
       => last.result.data[i].rev >= last.minRev[last.result.data[i].id]

\* C8: a create, update, delete or bulk-update call whose result has
\* success = false leaves every TTL cache entry unchanged; the cache changes
\* on the return of a write only when its result has success = true.
C8_FailedWriteKeepsCache ==
  [][/\ (last'.op \in WriteOps /\ ~last'.result.success) => cache' = cache
     /\ (last'.op \in WriteOps /\ cache' # cache) => last'.result.success]_vars

\* a write has just failed while the cache holds the list it would have
\* invalidated
C8_Witness ==
  /\ last.op \in WriteOps
  /\ ~last.result.success
  /\ CACHE_KEYS_CASE_STUDIES \in DOMAIN cache

FailedAnswer(resp) ==
  resp.kind = "reject" \/ (resp.kind = "http" /\ (~resp.ok \/ ~resp.body.parsable))

BodyErrorText(resp) ==
  IF resp.kind = "http" /\ resp.body.parsable THEN resp.body.error ELSE ""

\* C9 (as claimed): no Remote Client method raises; on a network rejection,
\* a non-2xx response or an unparsable body its envelope has success = false
\* and an error message, which is the remote error text when the body
\* carries one and otherwise a generic HTTP-status message.
C9_ErrorIsRemoteTextOrHttpStatus ==
  ~last.raised /\
  (FailedAnswer(last.resp) =>
     /\ ~last.result.success
     /\ last.result.error # ""
     /\ last.result.error =
          IF BodyErrorText(last.resp) # "" THEN BodyErrorText(last.resp)
          ELSE HttpStatusMessage(last.resp.status))

\* C9 (amended): no Remote Client method raises; on a network rejection, a
\* non-2xx response or an unparsable body its envelope has success = false
\* and a non-empty error message.  For a non-2xx response the message is the
\* remote error text when the body carries one and otherwise the generic
\* HTTP-status message; for a network rejection and for a 2xx response
\* whose body does not parse it is the message of the error that fetch() or
\* response.json() raised.
C9_UniformEnvelope ==
  ~last.raised /\
  (FailedAnswer(last.resp) =>
     /\ ~last.result.success
     /\ last.result.error # ""
     /\ (last.resp.kind = "http" /\ ~last.resp.ok) =>
          last.result.error =
            IF BodyErrorText(last.resp) # "" THEN BodyErrorText(last.resp)
            ELSE HttpStatusMessage(last.resp.status)
     /\ last.resp.kind = "reject" => last.result.error = FetchRejectionMessage
     /\ (last.resp.kind = "http" /\ last.resp.ok) =>
          last.result.error = JsonParseMessage)

\* a delete call has just resolved to a failure envelope after its request
\* was rejected by the network
C9_Witness ==
  /\ last.op = "deleteCaseStudy"
  /\ last.returned
  /\ last.resp.kind = "reject"
  /\ ~last.result.success

KindOfMethod(method) ==
  CASE method = "GET" -> "read"
    [] method = "DELETE" -> "delete"
    [] OTHER -> "write"

\* C10: every HTTP request opens one Operation Monitor token and closes it
\* once: while the request is in flight its token is pending and no record
\* exists for it; once it has resolved, exactly one Operation Record has
\* been appended for it, of kind read for GET, write for POST/PUT and delete
\* for DELETE, and no start token for it remains.
C10_OneRecordPerRequest ==
  \A rid \in 1..nreq :
    LET recs == {i \in 1..Len(operations) : operations[i].details.req = rid}
        toks == {k \in DOMAIN starts : starts[k].details.req = rid}
    IN IF \E r \in requests : r.rid = rid
       THEN Cardinality(toks) = 1 /\ recs = {}
       ELSE /\ toks = {}
            /\ Cardinality(recs) = 1
            /\ \A i \in recs :
                 operations[i].type = KindOfMethod(operations[i].details.method)

\* two requests have resolved, one of them a DELETE that failed
C10_Witness ==
  /\ requests = {}
  /\ Len(operations) = 2
  /\ \E i \in 1..Len(operations) :
       operations[i].type = "delete" /\ ~operations[i].success

----------------------------------------------------------------------------
(* Monitor model: the DatabaseMonitor driven directly by its callers.      *)
(* The monitor has handed out maxOperations - 1 ids before the model       *)
(* starts; its buffer holds the records of that many logOperation calls,    *)
(* or nothing (clearHistory was called).                                    *)

MonitorTypes == {"read", "sync"}
\* (duration, success, error) of the logOperation and completeOperation
\* calls explored
MonitorOutcomes == {<<NoDuration, TRUE, "">>, <<7, FALSE, "boom">>}
MonitorLimits == {0, 10, maxOperations, maxOperations + 1}
MonitorWindows == {TickMs \div 2, TickMs, 5 * 60 * 1000}

IdsBefore == maxOperations - 1

\* details passed by the caller: the number of the call and the kind asked
CallDetails(call, type) == [call |-> call, kind |-> type]

\* the buffer after n logOperation calls (ids 1..n, newest first), n <= 100
LoggedBefore(n) ==
  [i \in 1..n |->
     [id |-> n - i + 1, timestamp |-> TickMs, type |-> "read",
      duration |-> NoDuration, success |-> TRUE, recordCount |-> NoCount,
      error |-> "", details |-> CallDetails(0, "read")]]

\* a slice taken from the other end of the buffer
getRecentOperations_oldest(ops, limit) ==
  SubSeq(ops, Len(ops) - (IF limit < Len(ops) THEN limit ELSE Len(ops)) + 1,
         Len(ops))

\* getRecentOperations(limit): this.operations.slice(0, limit), limit >= 0
getRecentOperations(ops, limit) ==
  SubSeq(ops, 1, IF limit < Len(ops) THEN limit ELSE Len(ops))

\* Math.round(p / q) for p >= 0, q > 0
RoundDiv(p, q) == (2 * p + q) \div (2 * q)

RECURSIVE SumDurations(_)
SumDurations(ops) ==
  IF ops = <<>> THEN 0 ELSE Head(ops).duration + SumDurations(Tail(ops))

RECURSIVE UniqueErrors(_, _)
UniqueErrors(ops, seen) ==
  IF ops = <<>> THEN seen
  ELSE UniqueErrors(Tail(ops),
                    IF \E i \in 1..Len(seen) : seen[i] = Head(ops).error
                    THEN seen ELSE Append(seen, Head(ops).error))

\* getStats from recentOps on; successRate is kept in tenths (100 is 1000)
StatsOver(recentOps) ==
  LET totalOperations == Len(recentOps)
      Succeeded(op) == op.success
      successfulOps == SelectSeq(recentOps, Succeeded)
      HasDuration(op) == op.duration # NoDuration
      opsWithDuration == SelectSeq(recentOps, HasDuration)
      Failed(op) == ~op.success /\ op.error # ""
      errors == UniqueErrors(SelectSeq(recentOps, Failed), <<>>)
  IN [totalOperations |-> totalOperations,
      successRateTenths |->
        IF totalOperations > 0
        THEN RoundDiv(Len(successfulOps) * 1000, totalOperations) ELSE 1000,
      averageDuration |->
        IF Len(opsWithDuration) > 0
        THEN RoundDiv(SumDurations(opsWithDuration), Len(opsWithDuration))
        ELSE 0,
      operationsByType |->
        [ty \in MonitorTypes |->
           Cardinality({i \in 1..Len(recentOps) : recentOps[i].type = ty})],
      errors |-> SubSeq(errors, 1, IF Len(errors) < 5 THEN Len(errors) ELSE 5)]

\* getStats over the whole buffer
getStats_unwindowed(ops, t, timeWindowMs) == StatsOver(ops)

\* getStats(timeWindowMs): cutoff = Date.now() - timeWindowMs
getStats(ops, t, timeWindowMs) ==
  LET cutoff == t - timeWindowMs
      InWindow(op) == op.timestamp > cutoff
  IN StatsOver(SelectSeq(ops, InWindow))

NoStats == getStats(<<>>, 0, 0)

MonEv(op, id, arg, returned, stats) ==
  [op |-> op, id |-> id, arg |-> arg, returned |-> returned, stats |-> stats]

InitMonitor ==
  /\ now = TickMs
  /\ cache = EmptyMap
  /\ pending = {}
  /\ nfetch = 0
  /\ written = [k \in CacheKeys |-> NoWrite]
  /\ requests = {}
  /\ nreq = 0
  /\ kvList = SeedStore
  /\ kvItem = PutItems(EmptyMap, SeedStore)
  /\ wcount = 0
  /\ operations \in {<<>>, LoggedBefore(IdsBefore)}
  /\ starts = EmptyMap
  /\ nextOp = IdsBefore
  /\ metrics = <<>>
  /\ measuring = {}
  /\ nmeasure = 0
  /\ handlers = {}
  /\ healthCache = NoHealth
  /\ floor = [i \in 1..MaxId |-> 0]
  /\ localStore = Mirror(TRUE, <<>>)
  /\ sync = NoSync
  /\ calls = <<>>
  /\ last = MonEv("init", 0, 0, <<>>, NoStats)

monitorFrame == <<cache, cacheModelVars, requests, nreq, kvList, kvItem,
                  wcount, metrics, perfVars, serverVars, healthCache, floor, syncVars>>

MonTick ==
  /\ now < TickMs * (MonMaxTicks + 1)
  /\ now' = now + TickMs
  /\ last' = MonEv("tick", 0, 0, <<>>, NoStats)
  /\ UNCHANGED <<operations, starts, nextOp, monitorFrame>>

\* dbMonitor.logOperation({ type, duration, success, error })
MonLogOperation(type, duration, success, error) ==
  /\ nextOp < IdsBefore + MaxMonitorIds
  /\ nextOp' = nextOp + 1
  /\ operations' = logOperation(operations, nextOp + 1, now, type, duration,
                                success, NoCount, error, CallDetails(0, type))
  /\ last' = MonEv("logOperation", nextOp + 1, 0, <<>>, NoStats)
  /\ UNCHANGED <<now, starts, monitorFrame>>

\* dbMonitor.startOperation(type, details)
MonStartOperation(type) ==
  /\ nextOp < IdsBefore + MaxMonitorIds
  /\ nextOp' = nextOp + 1
  /\ starts' = startOperation(starts, nextOp + 1, now, type,
                              CallDetails(nextOp + 1, type))
  /\ last' = MonEv("startOperation", nextOp + 1, 0, <<>>, NoStats)
  /\ UNCHANGED <<now, operations, monitorFrame>>

\* dbMonitor.completeOperation(id, success, undefined, error) with any id:
\* an open token, a token already completed, or an id that is no token;
\* last.arg tells whether start data was found (1) or the call warned (0)
MonCompleteOperation(id, success, error) ==
  /\ id \in DOMAIN starts => nextOp < IdsBefore + MaxMonitorIds
  /\ operations' = completeOperation_ops(operations, starts, id, nextOp + 1,
                                         now, success, NoCount, error)
  /\ starts' = completeOperation_starts(starts, id)
  /\ nextOp' = IF id \in DOMAIN starts THEN nextOp + 1 ELSE nextOp
  /\ last' = MonEv("completeOperation", id,
                   IF id \in DOMAIN starts THEN 1 ELSE 0, <<>>, NoStats)
  /\ UNCHANGED <<now, monitorFrame>>

\* dbMonitor.clearHistory()
MonClearHistory ==
  /\ operations' = <<>>
  /\ last' = MonEv("clearHistory", 0, 0, <<>>, NoStats)
  /\ UNCHANGED <<now, starts, nextOp, monitorFrame>>

MonGetRecentOperations(limit) ==
  /\ last' = MonEv("getRecentOperations", 0, limit,
                   getRecentOperations(operations, limit), NoStats)
  /\ UNCHANGED <<now, operations, starts, nextOp, monitorFrame>>

MonGetStats(timeWindowMs) ==
  /\ last' = MonEv("getStats", 0, timeWindowMs, <<>>,
                   getStats(operations, now, timeWindowMs))
  /\ UNCHANGED <<now, operations, starts, nextOp, monitorFrame>>

NextMonitor ==
  \/ MonTick
  \/ \E ty \in MonitorTypes, o \in MonitorOutcomes :
        MonLogOperation(ty, o[1], o[2], o[3])
  \/ \E ty \in MonitorTypes : MonStartOperation(ty)
  \/ \E id \in (IdsBefore + 1)..(IdsBefore + MaxMonitorIds + 1),
        o \in MonitorOutcomes : MonCompleteOperation(id, o[2], o[3])
  \/ MonClearHistory
  \/ \E l \in MonitorLimits : MonGetRecentOperations(l)
  \/ \E w \in MonitorWindows : MonGetStats(w)

SpecMonitor == InitMonitor /\ [][NextMonitor]_vars

----------------------------------------------------------------------------
(* Claims about the DatabaseMonitor, checked under SpecMonitor *)

\* C11: after any sequence of logOperation, startOperation,
\* completeOperation and clearHistory calls the monitor holds at most 100
\* records
C11_AtMost100Records == Len(operations) <= 100

\* a logOperation call into a full buffer has just evicted a record
C11_Witness ==
  /\ last.op = "logOperation"
  /\ Len(operations) = 100
  /\ operations[100].id > 1

RecordIds(ops) == {ops[i].id : i \in 1..Len(ops)}
MinOf(a, b) == IF a < b THEN a ELSE b

\* C12: getRecentOperations(limit) returns the min(limit, size) most
\* recently logged records, newest first; a record logged into a full buffer
\* evicts the oldest record and nothing else
C12_NewestFirstOldestEvicted ==
  [][/\ last'.op = "getRecentOperations" =>
          LET got == last'.returned
          IN /\ Len(got) = MinOf(last'.arg, Len(operations))
             /\ RecordIds(got) \subseteq RecordIds(operations)
             /\ \A i, j \in 1..Len(got) : i < j => got[i].id > got[j].id
             /\ \A x \in RecordIds(operations) \ RecordIds(got) :
                  \A y \in RecordIds(got) : x < y
     /\ last'.op = "logOperation" =>
          LET oldest == CHOOSE x \in RecordIds(operations) :
                          \A y \in RecordIds(operations) : x <= y
          IN /\ operations'[1].id = last'.id
             /\ RecordIds(operations') =
                  IF Len(operations) = 100
                  THEN (RecordIds(operations) \ {oldest}) \cup {last'.id}
                  ELSE RecordIds(operations) \cup {last'.id}
             /\ Len(operations') = Cardinality(RecordIds(operations'))]_vars

\* getRecentOperations(100) on a buffer that has evicted a record
C12_Witness ==
  /\ last.op = "getRecentOperations"
  /\ last.arg = 100
  /\ Len(last.returned) = 100
  /\ operations[100].id > 1

\* C13: completeOperation with an id that is no open token (never handed
\* out, or already completed) appends no record and changes no monitor
\* state; a token yields at most one record, of the kind given to
\* startOperation
C13_TokensAreSingleUse ==
  /\ [][(last'.op = "completeOperation" /\ last'.id \notin DOMAIN starts) =>
          /\ operations' = operations
          /\ starts' = starts
          /\ nextOp' = nextOp]_vars
  /\ [](LET fromToken == {i \in 1..Len(operations) :
                            operations[i].details.call > 0}
        IN /\ Cardinality({operations[i].details.call : i \in fromToken})
                = Cardinality(fromToken)
           /\ \A i \in fromToken :
                /\ operations[i].type = operations[i].details.kind
                /\ operations[i].details.call \notin DOMAIN starts)

\* a token of kind sync completed once, and then completed again
C13_Witness ==
  /\ last.op = "completeOperation"
  /\ last.arg = 0
  /\ \E i \in 1..Len(operations) :
       /\ operations[i].details.call = last.id
       /\ operations[i].type = "sync"

\* C14: getStats(windowMs) counts exactly the records whose timestamp is
\* later than now - windowMs; with no such record it returns
\* totalOperations = 0, successRate = 100 and averageDuration = 0
C14_StatsWindow ==
  last.op = "getStats" =>
    LET inside == {i \in 1..Len(operations) :
                     operations[i].timestamp > now - last.arg}
    IN /\ last.stats.totalOperations = Cardinality(inside)
       /\ inside = {} => /\ last.stats.totalOperations = 0
                         /\ last.stats.successRateTenths = 1000
                         /\ last.stats.averageDuration = 0

\* getStats finds no record inside the window although the buffer holds
\* older records, failed ones with a duration among them
C14_Witness ==
  /\ last.op = "getStats"
  /\ last.stats.totalOperations = 0
  /\ \E i \in 1..Len(operations) :
       ~operations[i].success /\ operations[i].duration # NoDuration

----------------------------------------------------------------------------
(* Sync model: CaseStudiesSync on top of the CaseStudiesApi, the remote    *)
(* store and the local mirror.  One CaseStudiesSync call runs at a time;   *)
(* it advances from one await to the next in one step.                      *)

\* contents of the local mirror and of the remote store when the model starts
\* a record whose iconName is no key of the iconMapping
OtherRec(id) == CaseStudy(id, 0, "Zap", "Custom")

LocalSeeds == {<<>>, <<Rec(1, 0)>>, <<Rec(1, 0), OtherRec(2)>>}
RemoteSeeds == {<<>>, SeedStore, <<OtherRec(1)>>}

Cb(cb, current, total, text, detail, count) ==
  [cb |-> cb, current |-> current, total |-> total, text |-> text,
   detail |-> detail, count |-> count]
Progress(current, total, action) == Cb("onProgress", current, total, action, "", 0)
OnError(text, message) == Cb("onError", 0, 0, text, message, 0)
OnSuccess(text, count) == Cb("onSuccess", 0, 0, text, "", count)

InitSync ==
  /\ now = TickMs
  /\ cache = EmptyMap
  /\ pending = {}
  /\ nfetch = 0
  /\ written = [k \in CacheKeys |-> NoWrite]
  /\ requests = {}
  /\ nreq = 0
  /\ kvList \in RemoteSeeds
  /\ kvItem = PutItems(EmptyMap, kvList)
  /\ wcount = 0
  /\ operations = <<>>
  /\ starts = EmptyMap
  /\ nextOp = 0
  /\ metrics = <<>>
  /\ measuring = {}
  /\ nmeasure = 0
  /\ handlers = {}
  /\ healthCache = NoHealth
  /\ floor = [i \in 1..MaxId |-> 0]
  /\ localStore \in {Mirror(TRUE, l) : l \in LocalSeeds}
                      \cup {Mirror(FALSE, <<>>)}
  /\ sync = NoSync
  /\ calls = <<>>
  /\ last = Quiet("init")

\* a new CaseStudiesSync call may start when none is in progress
CanStart == sync.pc \in {"idle", "done"} /\ sync.run < MaxSyncRuns

BeginSync(op) ==
  [NoSync EXCEPT !.op = op, !.preLocal = localStore, !.preList = kvList,
                 !.preItem = kvItem, !.idsBefore = nextOp,
                 !.run = sync.run + 1,
                 !.prevOp = sync.op,
                 !.prevOk = (sync.outcome = "resolved" /\ ~sync.failed
                             /\ (sync.pushed \/ sync.saved)),
                 !.prevLocal = sync.preLocal]

\* await caseStudiesApi.getAllCaseStudies(): a cached value is handed over
\* at once, otherwise the call waits for the request getOrFetch issues
AwaitGetAll(s, pc) ==
  LET hit == HasCached(cache, CACHE_KEYS_CASE_STUDIES, now)
  IN [s EXCEPT !.pc = pc,
               !.awaiting = IF hit THEN 0 ELSE nreq + 1,
               !.inbox = IF hit THEN <<cache[CACHE_KEYS_CASE_STUDIES].data>>
                         ELSE <<>>]

\* await caseStudiesApi.bulkUpdateCaseStudies(apiCases)
AwaitBulk(s) ==
  [s EXCEPT !.pc = "to_upload", !.awaiting = nreq + 1, !.inbox = <<>>,
            !.pushed = TRUE]

CallGetAll ==
  ReadThrough("getAllCaseStudies", 0, CACHE_KEYS_CASE_STUDIES, CACHE_TTL_MEDIUM)

CallBulk(localCases) ==
  WriteCall("bulkUpdateCaseStudies", 0, "PUT",
            [i \in 1..Len(localCases) |-> localToApi(localCases[i])])

\* the call returns (resolved) or throws (rejected)
Finish(s, outcome, direction, result) ==
  [s EXCEPT !.pc = "done", !.outcome = outcome, !.direction = direction,
            !.result = result, !.inbox = <<>>, !.awaiting = 0]

\* no state of the client or the store changes in a step that calls no API
NoApiCall ==
  /\ last' = Quiet("sync")
  /\ UNCHANGED <<now, cache, cacheModelVars, requests, nreq, kvList, kvItem,
                 wcount, operations, starts, nextOp, metrics, perfVars, serverVars,
                 healthCache,
                 floor>>

\* autoSync after the syncToDatabase / syncFromDatabase it awaited: its
\* onSuccess and return, or its catch block
AutoSyncAfter(s, c, resolved, message, cases) ==
  IF resolved
  THEN [sync |-> Finish(s, "resolved",
                        IF s.inner = "toDb" THEN "toDb" ELSE "fromDb",
                        IF s.inner = "toDb" THEN s.localCases ELSE cases),
        calls |-> Append(c, OnSuccess(
                    CASE s.inner = "toDb" ->
                           "Auto-sync: Uploaded local data to database"
                      [] s.inner = "fromDb" ->
                           "Auto-sync: Downloaded data from database"
                      [] OTHER ->
                           "Auto-sync: Synced from database (source of truth)",
                    0))]
  ELSE [sync |-> Finish(s, "rejected", "", <<>>),
        calls |-> Append(c, OnError("Auto-sync failed", message))]

\* the end of syncToDatabase / syncFromDatabase: the call itself ends, or
\* the autoSync that awaited it goes on
EndInner(s, c, resolved, message, cases) ==
  IF s.inner = ""
  THEN [sync |-> Finish(s, IF resolved THEN "resolved" ELSE "rejected", "",
                        cases),
        calls |-> c]
  ELSE AutoSyncAfter(s, c, resolved, message, cases)

\* syncFromDatabase up to await caseStudiesApi.getAllCaseStudies()
StartSyncFromDatabase ==
  /\ CanStart
  /\ sync' = AwaitGetAll(BeginSync("syncFromDatabase"), "from_fetch")
  /\ calls' = <<Progress(0, 1, "Connecting to database...")>>
  /\ CallGetAll
  /\ UNCHANGED localStore

\* syncFromDatabase after the await; saveOk is what setJSON returns
SyncFromDatabaseResume(saveOk) ==
  /\ sync.pc = "from_fetch"
  /\ sync.inbox # <<>>
  /\ LET response == sync.inbox[1]
         top == sync.inner = ""
         bad == ~response.success \/ response.shape # "array"
         localCases == [i \in 1..Len(response.data) |->
                          apiToLocal(response.data[i])]
         message == IF bad
                    THEN IF response.error # "" THEN response.error
                         ELSE "Failed to fetch from database"
                    ELSE "Failed to save to localStorage"
         progress == IF top
                     THEN <<Progress(1, 2, "Converting data format..."),
                            Progress(2, 2, "Saving to local storage...")>>
                     ELSE <<>>
         ok == ~bad /\ saveOk
         c == IF bad
              THEN Append(calls, OnError("Failed to sync from database", message))
              ELSE IF ~saveOk
              THEN Append(calls \o progress,
                          OnError("Failed to sync from database", message))
              ELSE Append(calls \o progress,
                          OnSuccess("Successfully synced from database",
                                    Len(localCases)))
         s == [sync EXCEPT !.failed = @ \/ ~ok, !.saved = @ \/ ok]
         end == EndInner(s, c, ok, message, IF ok THEN localCases ELSE <<>>)
     IN /\ sync' = end.sync
        /\ calls' = end.calls
        /\ localStore' = IF ok THEN saveLocalCases(localCases) ELSE localStore
  /\ NoApiCall

NothingToSync_never(localCases) == FALSE

\* syncToDatabase: if (localCases.length === 0) { onError(...); return []; }
NothingToSync(localCases) == Len(localCases) = 0

\* syncToDatabase up to await caseStudiesApi.bulkUpdateCaseStudies(apiCases),
\* or to its early return when there is nothing to upload
StartSyncToDatabase ==
  /\ CanStart
  /\ LET localCases == getLocalCases(localStore)
         n == Len(localCases)
     IN IF NothingToSync(localCases)
        THEN /\ sync' = Finish(BeginSync("syncToDatabase"), "resolved", "", <<>>)
             /\ calls' = <<OnError("No local case studies to sync", "")>>
             /\ NoApiCall
        ELSE /\ sync' = AwaitBulk([BeginSync("syncToDatabase")
                                     EXCEPT !.localCases = localCases])
             /\ calls' = <<Progress(0, n + 1, "Preparing data..."),
                           Progress(1, n + 1, "Uploading to database...")>>
             /\ CallBulk(localCases)
  /\ UNCHANGED localStore

\* syncToDatabase after the await
SyncToDatabaseResume ==
  /\ sync.pc = "to_upload"
  /\ sync.inbox # <<>>
  /\ LET response == sync.inbox[1]
         top == sync.inner = ""
         n == Len(sync.localCases)
         bad == ~response.success \/ response.shape = "none"
         message == IF response.error # "" THEN response.error
                    ELSE "Failed to upload to database"
         c == IF bad
              THEN Append(calls, OnError("Failed to sync to database", message))
              ELSE Append(IF top
                          THEN Append(calls, Progress(n + 1, n + 1, "Sync complete"))
                          ELSE calls,
                          OnSuccess("Successfully synced to database", n))
         s == [sync EXCEPT !.failed = @ \/ bad]
         end == EndInner(s, c, ~bad, message,
                         IF bad THEN <<>> ELSE response.data)
     IN /\ sync' = end.sync
        /\ calls' = end.calls
  /\ NoApiCall
  /\ UNCHANGED localStore

\* autoSync up to await caseStudiesApi.getAllCaseStudies()
StartAutoSync ==
  /\ CanStart
  /\ sync' = AwaitGetAll([BeginSync("autoSync")
                            EXCEPT !.localCases = getLocalCases(localStore)],
                         "auto_fetch")
  /\ calls' = <<Progress(0, 3, "Analyzing sync requirements...")>>
  /\ CallGetAll
  /\ UNCHANGED localStore

\* autoSync after the await: the branch it takes, up to the await of the
\* syncToDatabase / syncFromDatabase it calls (with onProgress undefined)
AutoSyncResume ==
  /\ sync.pc = "auto_fetch"
  /\ sync.inbox # <<>>
  /\ LET dbResponse == sync.inbox[1]
         localCases == sync.localCases
         noData == \/ ~dbResponse.success
                   \/ dbResponse.shape # "array"
                   \/ Len(dbResponse.data) = 0
         s == [sync EXCEPT !.failed = @ \/ ~dbResponse.success, !.inbox = <<>>]
         c == Append(calls, Progress(1, 3, "Comparing data sources..."))
     IN IF noData /\ Len(localCases) > 0
        THEN /\ sync' = AwaitBulk([s EXCEPT !.inner = "toDb"])
             /\ calls' = Append(c, Progress(2, 3, "Syncing local data to database..."))
             /\ CallBulk(getLocalCases(localStore))
        ELSE IF ~noData
        THEN /\ sync' = AwaitGetAll(
                          [s EXCEPT !.inner = IF Len(localCases) = 0
                                              THEN "fromDb" ELSE "fromDbBoth"],
                          "from_fetch")
             /\ calls' = Append(c, Progress(2, 3, "Syncing database to local..."))
             /\ CallGetAll
        ELSE /\ sync' = Finish(s, "resolved", "local", localCases)
             /\ calls' = c \o
                  <<Progress(3, 3, "Using local data..."),
                    OnSuccess("Auto-sync: Using local data (no database data available)", 0)>>
             /\ NoApiCall
  /\ UNCHANGED localStore

\* getSyncStatus up to await caseStudiesApi.getAllCaseStudies()
StartGetSyncStatus ==
  /\ CanStart
  /\ sync' = AwaitGetAll([BeginSync("getSyncStatus")
                            EXCEPT !.localCases = getLocalCases(localStore)],
                         "status_fetch")
  /\ calls' = <<>>
  /\ CallGetAll
  /\ UNCHANGED localStore

\* getSyncStatus after the await
GetSyncStatusResume ==
  /\ sync.pc = "status_fetch"
  /\ sync.inbox # <<>>
  /\ LET dbResponse == sync.inbox[1]
         localCount == Len(sync.localCases)
         hasData == dbResponse.success /\ dbResponse.shape = "array"
         databaseCount == IF hasData THEN Len(dbResponse.data) ELSE 0
     IN sync' = [Finish(sync, "resolved", "", <<>>)
                   EXCEPT !.status =
                     SyncStatus(localCount, LastUpdated(sync.localCases),
                                databaseCount,
                                IF hasData THEN LastUpdated(dbResponse.data)
                                ELSE NoTimestamp)]
  /\ NoApiCall
  /\ UNCHANGED <<localStore, calls>>

NextSync ==
  \/ TickApi
  \/ StartSyncFromDatabase
  \/ \E saveOk \in BOOLEAN : SyncFromDatabaseResume(saveOk)
  \/ StartSyncToDatabase
  \/ SyncToDatabaseResume
  \/ StartAutoSync
  \/ AutoSyncResume
  \/ StartGetSyncStatus
  \/ GetSyncStatusResume
  \/ \E r \in requests, o \in Outcomes : ServerHandle(r, o)
  \/ \E r \in requests : Receive(r)
  \/ \E r \in requests : NetworkReject(r)

SpecSync == InitSync /\ [][NextSync]_vars

\* A CaseStudiesSync call makes at most two API calls, each of at most one
\* request; a call starts only when the request bound leaves room for both.
SyncStart ==
  /\ nreq + 2 <= MaxRequests
  /\ \/ StartSyncFromDatabase
     \/ StartSyncToDatabase
     \/ StartAutoSync
     \/ StartGetSyncStatus

\* the continuation of a call after its await
SyncResume ==
  \/ \E saveOk \in BOOLEAN : SyncFromDatabaseResume(saveOk)
  \/ SyncToDatabaseResume
  \/ AutoSyncResume
  \/ GetSyncStatusResume

\* fetch() settles: the answer arrives or the request is rejected
FetchSettles == \E r \in requests : Receive(r) \/ NetworkReject(r)

NextSyncLive ==
  \/ TickApi
  \/ SyncStart
  \/ SyncResume
  \/ \E r \in requests, o \in Outcomes : ServerHandle(r, o)
  \/ FetchSettles

\* Every issued request eventually answers or rejects (the assumption of the
\* claim), and the event loop runs the continuation of a settled await.
SpecSyncLive ==
  /\ InitSync
  /\ [][NextSyncLive]_vars
  /\ WF_vars(FetchSettles)
  /\ WF_vars(SyncResume)

\* C15: the recommendation of getSyncStatus is a function of the two
\* counts: noSyncNeeded when both are 0 or they are equal, syncToDb when
\* local > 0 and database = 0, syncFromDb when local = 0 and database > 0,
\* conflict when both are non-zero and differ
C15_StatusFromCounts ==
  (sync.op = "getSyncStatus" /\ sync.pc = "done") =>
    LET l == sync.status.localCount
        d == sync.status.databaseCount
        r == sync.status.recommendation
    IN /\ sync.outcome = "resolved"
       /\ r \in {"noSyncNeeded", "syncToDb", "syncFromDb", "conflict"}
       /\ r = "noSyncNeeded" <=> ((l = 0 /\ d = 0) \/ l = d)
       /\ r = "syncToDb" <=> (l > 0 /\ d = 0)
       /\ r = "syncFromDb" <=> (l = 0 /\ d > 0)
       /\ r = "conflict" <=> (l > 0 /\ d > 0 /\ l # d)

\* getSyncStatus has returned conflict for two local and one remote record
C15_Witness ==
  /\ sync.op = "getSyncStatus"
  /\ sync.pc = "done"
  /\ sync.status.localCount = 2
  /\ sync.status.databaseCount = 1
  /\ sync.status.recommendation = "conflict"

\* a syncToDatabase, syncFromDatabase or autoSync call has ended
SyncDone ==
  /\ sync.op \in {"syncToDatabase", "syncFromDatabase", "autoSync"}
  /\ sync.pc = "done"

PreLocalCount == Len(getLocalCases(sync.preLocal))
PreRemoteCount == Len(sync.preList)

\* C16: autoSync chooses its action from the two collections as they are
\* when it is called: Local non-empty and Remote empty, a push; Local empty
\* and Remote non-empty, a pull; both non-empty, a pull after which Local
\* holds Remote's records; both empty, no write to either collection and
\* success with an empty result
C16_AutoSyncChoice ==
  (sync.op = "autoSync" /\ sync.pc = "done") =>
    /\ (PreLocalCount > 0 /\ PreRemoteCount = 0) =>
         (sync.inner = "toDb" /\ sync.pushed)
    /\ (PreLocalCount = 0 /\ PreRemoteCount > 0) => sync.inner = "fromDb"
    /\ (PreLocalCount > 0 /\ PreRemoteCount > 0) =>
         /\ sync.inner = "fromDbBoth"
         /\ ~sync.pushed
         /\ sync.outcome = "resolved" => localStore.cases = kvList
    /\ (PreLocalCount = 0 /\ PreRemoteCount = 0) =>
         /\ ~sync.pushed
         /\ ~sync.saved
         /\ localStore = sync.preLocal
         /\ kvList = sync.preList
         /\ kvItem = sync.preItem
         /\ sync.outcome = "resolved"
         /\ sync.result = <<>>
         /\ calls[Len(calls)].cb = "onSuccess"

\* C17: when a remote read, a remote write or a local-mirror write has
\* failed during a sync call, the error callback has been invoked and both
\* collections hold their pre-sync contents
C17_FailureLeavesCollections ==
  (SyncDone /\ sync.failed) =>
    /\ \E i \in 1..Len(calls) : calls[i].cb = "onError" /\ calls[i].detail # ""
    /\ localStore = sync.preLocal
    /\ kvList = sync.preList
    /\ kvItem = sync.preItem

\* C18: a bulk write that the remote store answers with a failure leaves
\* the stored list and every per-id record as they were before the request,
\* also when the handler fails partway
C18_FailedBulkLeavesRemote ==
  [][\A r \in requests' :
       (/\ r.op = "bulkUpdateCaseStudies"
        /\ r.pc = "answered"
        /\ \E q \in requests : q.rid = r.rid /\ q.pc = "sent"
        /\ ~(r.resp.ok /\ r.resp.body.parsable /\ r.resp.body.success))
       => (kvList' = kvList /\ kvItem' = kvItem)]_vars

\* C19: syncToDatabase, syncFromDatabase and autoSync never reject: the
\* promise they return resolves
C19_SyncNeverRejects == SyncDone => sync.outcome = "resolved"

\* C20: every run of syncToDatabase, syncFromDatabase or autoSync has
\* appended a record of kind sync to the DatabaseMonitor
C20_SyncRecordLogged ==
  SyncDone =>
    \E i \in 1..Len(operations) :
      operations[i].type = "sync" /\ operations[i].id > sync.idsBefore

\* the records of two local mirrors agree in every field but the timestamps
SameButTimestamps(a, b) ==
  /\ a.valid = b.valid
  /\ Len(a.cases) = Len(b.cases)
  /\ \A i \in 1..Len(a.cases) :
       /\ a.cases[i].id = b.cases[i].id
       /\ a.cases[i].iconName = b.cases[i].iconName
       /\ a.cases[i].title = b.cases[i].title

\* C21: a successful syncToDatabase followed by a successful
\* syncFromDatabase leaves the local mirror with the records it held before
\* the push, identifier for identifier and field for field, except for the
\* timestamps
C21_PushPullRoundTrip ==
  (/\ sync.op = "syncFromDatabase"
   /\ sync.pc = "done"
   /\ sync.outcome = "resolved"
   /\ sync.prevOp = "syncToDatabase"
   /\ sync.prevOk)
  => SameButTimestamps(localStore, sync.prevLocal)

\* C22: when the local mirror is unreadable the engine takes Local as an
\* empty collection with no timestamp instead of failing: getSyncStatus
\* reports local count 0, and autoSync with a non-empty Remote performs a
\* pull
C22_UnreadableLocalIsEmpty ==
  (sync.pc = "done" /\ ~sync.preLocal.valid) =>
    /\ sync.op = "getSyncStatus" =>
         /\ sync.outcome = "resolved"
         /\ sync.status.localCount = 0
         /\ sync.status.localLastUpdated = NoTimestamp
    /\ (sync.op = "autoSync" /\ sync.preList # <<>>) =>
         sync.inner = "fromDb"

----------------------------------------------------------------------------
(* Claims about healthCheck, checked under SpecApi *)

\* a healthCheck call that returned healthCache.result at once
HealthServed ==
  /\ last'.op = "healthCheck"
  /\ last'.returned
  /\ last'.resp = NoResp
  /\ requests' = requests

\* a healthCheck call that went to makeRequest('/health')
HealthRequested ==
  /\ nreq' = nreq + 1
  /\ \E r \in requests' : r.rid = nreq' /\ r.role = "health"

\* C23 (as claimed): healthCheck serves the stored result without a request
\* exactly when a successful result was stored less than 60000 ms earlier,
\* and issues a request otherwise
C23_ServedIffStoredWithinMinute ==
  [][/\ HealthServed =>
          healthCache # NoHealth
          /\ now - healthCache.storedAt < HEALTH_CACHE_DURATION
     /\ HealthRequested =>
          ~(healthCache # NoHealth
            /\ now - healthCache.storedAt < HEALTH_CACHE_DURATION)]_vars

\* C23 (as the code has it): the age of the stored result is counted from
\* the start of the healthCheck call that fetched it. healthCheck serves the
\* stored result without a request exactly when a successful result is
\* stored whose call started less than 60000 ms earlier; a failed result is
\* never stored or served, and a step that changes the TTL cache leaves the
\* health cache and so the answer of healthCheck unchanged
C23_ServedIffStartedWithinMinute ==
  /\ [][/\ HealthServed =>
             /\ healthCache # NoHealth
             /\ now - healthCache.timestamp < HEALTH_CACHE_DURATION
             /\ last'.result = healthCache.result
        /\ HealthRequested =>
             ~(healthCache # NoHealth
               /\ now - healthCache.timestamp < HEALTH_CACHE_DURATION)
        /\ cache' # cache => healthCache' = healthCache]_vars
  /\ [](healthCache # NoHealth => healthCache.result.success)
  /\ [](healthCache # NoHealth => healthCache.timestamp <= healthCache.storedAt)

\* healthCheck returned the stored result of an earlier call
C23_Witness ==
  /\ last.op = "healthCheck" /\ last.returned /\ last.resp = NoResp
  /\ healthCache # NoHealth
  /\ last.result = healthCache.result

----------------------------------------------------------------------------
(* Termination, checked under SpecSyncLive *)

\* C24: when every issued request eventually answers or rejects, every
\* CaseStudiesSync call and every read through the cache eventually
\* completes, resolved or rejected; no request stays pending and no
\* dbMonitor start token stays open forever
C24_EveryCallCompletes ==
  /\ (sync.pc \notin {"idle", "done"}) ~> (sync.pc = "done")
  /\ \A rid \in 1..MaxRequests :
       (\E r \in requests : r.rid = rid) ~> ~(\E r \in requests : r.rid = rid)
  /\ \A t \in 1..MaxRequests :
       (t \in DOMAIN starts) ~> (t \notin DOMAIN starts)
  /\ [](sync.pc = "done" => sync.outcome \in {"resolved", "rejected"})

\* an autoSync that made two requests has completed
C24_Witness ==
  /\ sync.op = "autoSync"
  /\ sync.pc = "done"
  /\ nreq = 2
  /\ requests = {}
  /\ starts = EmptyMap

----------------------------------------------------------------------------
(* PerformanceMonitor on its own: startMeasure, endMeasure, measure,       *)
(* measureAsync and clear called in any order.  measure runs its syncFn    *)
(* within one step; measureAsync awaits its asyncFn, so other calls run    *)
(* between its startMeasure and its endMeasure.                            *)

PerfNames == {<<"a">>, <<"b">>}

\* what the measured function does: returns value, or throws value
FnOutcomes == {[raised |-> FALSE, value |-> "result"],
               [raised |-> TRUE, value |-> "boom"]}

MetricsBefore == maxMetrics - 1

\* the array after n measurements (started at 1..n, each ended 1 ms later)
MeasuredBefore(n) ==
  [i \in 1..n |-> [name |-> <<"old">>, startTime |-> i, endTime |-> i + 1,
                   duration |-> 1]]

\* handles of the measurements the recorder holds, those ended before the
\* model starts left out
HeldHandles ==
  {startMeasure_return(metrics[i].name, metrics[i].startTime) :
     i \in {j \in 1..Len(metrics) : metrics[j].name \in PerfNames}}

\* the metrics with this name and start time that are not ended
OpenAt(ms, name, t) ==
  {i \in 1..Len(ms) : ms[i].name = name /\ ms[i].startTime = t
                      /\ ms[i].endTime = 0}

measureOutcome_swallow(fn) == [raised |-> FALSE, value |-> ""]

\* how measure / measureAsync end: return result, or throw error
measureOutcome(fn) == fn

\* op: the call; arg: its argument; handle: what startMeasure returned;
\* ended: what endMeasure returned; fn: what the measured function did;
\* outcome: how measure / measureAsync ended; openBefore: before the
\* endMeasure of the call the recorder held an open measurement for arg
\* (for endMeasure: one whose handle is arg), started at startTime
PerfEv(op, arg, handle, ended, fn, outcome, openBefore, startTime) ==
  [op |-> op, arg |-> arg, handle |-> handle, ended |-> ended,
   fn |-> fn, outcome |-> outcome, openBefore |-> openBefore,
   startTime |-> startTime]

NoFn == [raised |-> FALSE, value |-> ""]

PerfQuiet(op) == PerfEv(op, <<>>, <<>>, NoDuration, NoFn, NoFn, FALSE, 0)

perfFrame == <<serverVars, cache, cacheModelVars, requests, nreq, kvList, kvItem, wcount,
               operations, starts, nextOp, healthCache, floor, syncVars>>

InitPerf ==
  /\ now = TickMs
  /\ cache = EmptyMap
  /\ pending = {}
  /\ nfetch = 0
  /\ written = [k \in CacheKeys |-> NoWrite]
  /\ requests = {}
  /\ nreq = 0
  /\ kvList = <<>>
  /\ kvItem = EmptyMap
  /\ wcount = 0
  /\ operations = <<>>
  /\ starts = EmptyMap
  /\ nextOp = 0
  /\ metrics \in {<<>>, MeasuredBefore(MetricsBefore)}
  /\ measuring = {}
  /\ nmeasure = 0
  /\ handlers = {}
  /\ healthCache = NoHealth
  /\ floor = [i \in 1..MaxId |-> 0]
  /\ localStore = Mirror(TRUE, <<>>)
  /\ sync = NoSync
  /\ calls = <<>>
  /\ last = PerfQuiet("init")

PerfTick ==
  /\ now < TickMs * (PerfMaxTicks + 1)
  /\ now' = now + TickMs
  /\ last' = PerfQuiet("tick")
  /\ UNCHANGED <<metrics, perfVars, perfFrame>>

PerfStartMeasure(name) ==
  /\ nmeasure < MaxMeasures
  /\ nmeasure' = nmeasure + 1
  /\ metrics' = startMeasure(metrics, name, now)
  /\ last' = PerfEv("startMeasure", name, startMeasure_return(name, now),
                    NoDuration, NoFn, NoFn, FALSE, now)
  /\ UNCHANGED <<now, measuring, perfFrame>>

\* endMeasure(arg): arg is a name, or the handle startMeasure returned
PerfEndMeasure(arg) ==
  /\ metrics' = endMeasure(metrics, arg, now)
  /\ LET handled == {i \in 1..Len(metrics) :
                       /\ startMeasure_return(metrics[i].name,
                                              metrics[i].startTime) = arg
                       /\ metrics[i].endTime = 0}
     IN last' = PerfEv("endMeasure", arg, <<>>,
                       endMeasure_return(metrics, arg, now), NoFn, NoFn,
                       handled # {},
                       IF handled = {} THEN 0
                       ELSE metrics[CHOOSE i \in handled : TRUE].startTime)
  /\ UNCHANGED <<now, perfVars, perfFrame>>

\* measure(name, syncFn): startMeasure, syncFn, endMeasure in one step
PerfMeasure(name, fn) ==
  /\ nmeasure < MaxMeasures
  /\ nmeasure' = nmeasure + 1
  /\ LET started == startMeasure(metrics, name, now)
     IN /\ metrics' = endMeasure(started, name, now)
        /\ last' = PerfEv("measure", name, <<>>,
                          endMeasure_return(started, name, now),
                          fn, measureOutcome(fn), TRUE, now)
  /\ UNCHANGED <<now, measuring, perfFrame>>

\* measureAsync(name, asyncFn) up to await asyncFn()
PerfMeasureAsync(name) ==
  /\ nmeasure < MaxMeasures
  /\ nmeasure' = nmeasure + 1
  /\ metrics' = startMeasure(metrics, name, now)
  /\ measuring' = measuring \cup
                    {[call |-> nmeasure + 1, name |-> name, startTime |-> now]}
  /\ last' = PerfQuiet("called")
  /\ UNCHANGED <<now, perfFrame>>

\* asyncFn settles: measureAsync ends the measurement and returns or throws
PerfMeasureAsyncSettle(c, fn) ==
  /\ c \in measuring
  /\ measuring' = measuring \ {c}
  /\ metrics' = endMeasure(metrics, c.name, now)
  /\ last' = PerfEv("measureAsync", c.name, <<>>,
                    endMeasure_return(metrics, c.name, now),
                    fn, measureOutcome(fn),
                    \E i \in 1..Len(metrics) :
                      metrics[i].name = c.name /\ metrics[i].endTime = 0,
                    c.startTime)
  /\ UNCHANGED <<now, nmeasure, perfFrame>>

PerfClear ==
  /\ metrics' = <<>>
  /\ last' = PerfQuiet("clear")
  /\ UNCHANGED <<now, perfVars, perfFrame>>

NextPerf ==
  \/ PerfTick
  \/ \E name \in PerfNames : PerfStartMeasure(name)
  \/ \E arg \in PerfNames \cup HeldHandles : PerfEndMeasure(arg)
  \/ \E name \in PerfNames, fn \in FnOutcomes : PerfMeasure(name, fn)
  \/ \E name \in PerfNames : PerfMeasureAsync(name)
  \/ \E c \in measuring, fn \in FnOutcomes : PerfMeasureAsyncSettle(c, fn)
  \/ PerfClear

SpecPerf == InitPerf /\ [][NextPerf]_vars

\* C25: endMeasure called with the handle startMeasure returned ends that
\* measurement and returns its duration, the end time minus the start time
\* of that measurement, for every handle whose measurement is still open
C25_EndMeasureByHandle ==
  (last.op = "endMeasure" /\ last.openBefore) =>
    /\ last.ended = now - last.startTime
    /\ OpenAt(metrics, SubSeq(last.arg, 1, Len(last.arg) - 2),
              last.startTime) = {}

\* C26 (as claimed): measure and measureAsync record one completed
\* measurement for name whether fn returns or fails, and end as fn did: the
\* same exception is thrown after the measurement is ended, the result is
\* returned unchanged
C26_OneMeasurementPerCall ==
  last.op \in {"measure", "measureAsync"} =>
    /\ last.ended # NoDuration
    /\ last.outcome = last.fn

\* C26 (as the code has it): measure always ends a measurement for name;
\* measureAsync ends the oldest open measurement for name the recorder holds
\* when asyncFn settles, and none when clear() or another endMeasure left
\* none open; both end as fn did
C26_EndsOpenMeasurementAndPropagates ==
  /\ last.op = "measure" => last.ended # NoDuration
  /\ last.op = "measureAsync" =>
       (last.openBefore <=> last.ended # NoDuration)
  /\ last.op \in {"measure", "measureAsync"} => last.outcome = last.fn

\* asyncFn threw, the measurement was ended and the exception thrown on
C26_Witness ==
  /\ last.op = "measureAsync"
  /\ last.fn.raised
  /\ last.outcome.raised
  /\ last.ended # NoDuration

\* the measurements of new are the last ones of old followed by one started
\* now
KeptNewest(old, new) ==
  LET n == Len(new)
      drop == Len(old) + 1 - n
  IN /\ n = IF Len(old) < maxMetrics THEN Len(old) + 1 ELSE maxMetrics
     /\ new[n].startTime = now
     /\ \A i \in 1..(n - 1) :
          /\ new[i].name = old[i + drop].name
          /\ new[i].startTime = old[i + drop].startTime

\* C27: the recorder holds at most 100 measurements, and they are the most
\* recently started ones: a call that starts a measurement appends it and
\* drops the oldest beyond 100, clear drops all, and no other call adds,
\* drops or reorders measurements
C27_Last100Measurements ==
  /\ [][IF nmeasure' = nmeasure + 1
        THEN KeptNewest(metrics, metrics')
        ELSE \/ metrics' = <<>>
             \/ /\ Len(metrics') = Len(metrics)
                /\ \A i \in 1..Len(metrics) :
                     /\ metrics'[i].name = metrics[i].name
                     /\ metrics'[i].startTime = metrics[i].startTime]_vars
  /\ [](Len(metrics) <= maxMetrics)

\* 100 measurements are held and the two oldest have been dropped
C27_Witness ==
  /\ Len(metrics) = maxMetrics
  /\ metrics[1].startTime = 3

----------------------------------------------------------------------------
(* Further claims about the ApiCache, checked under SpecCache *)

KeyOps == {"set", "get", "has", "delete", "getOrFetch", "fetchStarted",
           "fetched", "fetchFailed", "refreshed", "refreshFailed"}

\* C29: set(k), get(k), has(k), delete(k) and getOrFetch(k) leave the entry
\* of every other key as it is while that entry is not expired
\* (now <= expiry), and store nothing under another key: the only entries of
\* other keys they remove are expired ones
C29_OtherKeysUntouched ==
  [][last'.op \in KeyOps =>
       \A k \in CacheKeys \ {last'.key} :
         /\ (k \in DOMAIN cache /\ ~(now > cache[k].expiry)) =>
              (k \in DOMAIN cache' /\ cache'[k] = cache[k])
         /\ k \in DOMAIN cache' => (k \in DOMAIN cache /\ cache'[k] = cache[k])]_vars

\* a set() has just run its sweep while the entry of another key was at its
\* expiry (now = expiry, not expired), and that entry is still there
C29_Witness ==
  /\ last.op = "set"
  /\ \E k \in CacheKeys \ {last.key} :
       /\ k \in DOMAIN cache
       /\ cache[k].expiry = now

----------------------------------------------------------------------------
(* Further claims about CaseStudiesSync, checked under SpecSync *)

\* the local mirror holds the records of the remote list, each with its id,
\* timestamps and title
HoldsRemote(store, list) ==
  /\ store.valid
  /\ Len(store.cases) = Len(list)
  /\ \A i \in 1..Len(list) :
       /\ store.cases[i].id = list[i].id
       /\ store.cases[i].rev = list[i].rev
       /\ store.cases[i].title = list[i].title

\* C30: a successful syncFromDatabase reads the whole remote collection and
\* overwrites the local mirror with it, each record with its id and
\* timestamps; onProgress is called in the order fetch, convert, write with
\* current non-decreasing and current <= total, and onSuccess comes last,
\* after the write
C30_PullOverwritesLocal ==
  (/\ sync.op = "syncFromDatabase"
   /\ sync.pc = "done"
   /\ sync.outcome = "resolved") =>
    /\ HoldsRemote(localStore, kvList)
    /\ Len(calls) = 4
    /\ \A i \in 1..3 : calls[i].cb = "onProgress"
                       /\ calls[i].current <= calls[i].total
    /\ \A i \in 1..2 : calls[i].current <= calls[i + 1].current
    /\ calls[4].cb = "onSuccess"
    /\ sync.saved

----------------------------------------------------------------------------
(* Further claims about the remote client, checked under SpecApi *)

\* C31: no failure envelope is stored in the cache, so a read that follows a
\* failed read of the same key issues a new request: no read is answered
\* from the cache with success = false
C31_NoFailureCached ==
  /\ \A k \in DOMAIN cache : cache[k].data.success
  /\ (last.op \in {"getAllCaseStudies", "getCaseStudy", "getStatistics"}
      /\ last.returned /\ last.resp = NoResp) => last.result.success

----------------------------------------------------------------------------
(* Further claims about autoSync, checked under SpecSync *)

\* C32: autoSync issues its bulk write only when its read of the remote
\* collection succeeded, the remote collection is empty and the local
\* mirror holds records; after a failed read it writes nothing to the
\* remote store
C32_AutoSyncPushOnlyAfterRead ==
  [][(sync'.op = "autoSync" /\ sync'.pushed /\ ~sync.pushed) =>
       /\ ~sync'.failed
       /\ kvList = <<>>
       /\ getLocalCases(localStore) # <<>>]_vars

\* the onSuccess and onError calls among the callbacks invoked
Reports(cs) == {i \in 1..Len(cs) : cs[i].cb \in {"onSuccess", "onError"}}

\* C33: every autoSync run reports its outcome exactly once: one call of
\* onSuccess or of onError, on every path, the paths through syncToDatabase
\* and syncFromDatabase included
C33_AutoSyncReportsOnce ==
  (sync.op = "autoSync" /\ sync.pc = "done") => Cardinality(Reports(calls)) = 1

\* C34: syncToDatabase with an empty local collection issues no remote
\* write, and no bulk write of a push carries an empty collection: a push
\* never replaces the remote collection by an empty one
C34_NoEmptyPush ==
  /\ [][/\ (sync'.op = "syncToDatabase" /\ sync'.run = sync.run + 1
            /\ getLocalCases(localStore) = <<>>) =>
             /\ nreq' = nreq
             /\ sync'.pc = "done"
             /\ ~sync'.pushed
        /\ nreq' = nreq + 1 =>
             \A r \in requests' :
               (r.rid = nreq' /\ r.op = "bulkUpdateCaseStudies") =>
                 r.payload # <<>>]_vars
  /\ [](\A r \in requests :
          r.op = "bulkUpdateCaseStudies" => r.payload # <<>>)

\* syncToDatabase has returned at once for an empty local collection and the
\* remote collection still holds its record
C34_Witness ==
  /\ sync.op = "syncToDatabase"
  /\ sync.pc = "done"
  /\ getLocalCases(sync.preLocal) = <<>>
  /\ calls = <<OnError("No local case studies to sync", "")>>
  /\ nreq = 0
  /\ kvList = SeedStore

----------------------------------------------------------------------------
(* Further claims about the cache of the remote client, checked under      *)
(* SpecApi                                                                  *)

\* a create, update or delete call has just returned success
WriteSucceeded ==
  /\ last'.op \in {"createCaseStudy", "updateCaseStudy", "deleteCaseStudy"}
  /\ last'.returned
  /\ last'.result.success
  /\ requests' # requests

\* C35: after a successful createCaseStudy, updateCaseStudy or
\* deleteCaseStudy a later getStatistics returns no statistics cached before
\* the write: when the write returns, the statistics entry stored before it
\* is no longer in the cache (getStatistics returns the entry it finds)
C35_StatsInvalidatedByWrite ==
  [][WriteSucceeded => CACHE_KEYS_STATS \notin DOMAIN cache']_vars

----------------------------------------------------------------------------
(* Concurrent misses of getOrFetch, checked under SpecCache *)

AwaitedFetches(key) == {f \in pending : f.key = key /\ f.mode = "await"}

\* C36: concurrent getOrFetch calls for one key that all find no entry
\* invoke fetchFn once in total: while the fetch of the first is in flight
\* the others start no fetch of their own
C36_MissesShareOneFetch ==
  \A k \in CacheKeys : Cardinality(AwaitedFetches(k)) <= 1

----------------------------------------------------------------------------
(* The two copies of a record in the remote store, checked under SpecApi *)

\* GET /casestudies/{id} answers a record exactly when the list of
\* GET /casestudies holds one with that id, and the copies are equal
ListMatchesItems(list, item) ==
  /\ \A i \in 1..Len(list) :
       list[i].id \in DOMAIN item /\ item[list[i].id] = list[i]
  /\ \A id \in DOMAIN item : \E i \in 1..Len(list) : list[i].id = id

\* a write request was handled to its end and answered success in this step
WriteCompleted ==
  \E r \in requests' \ requests :
    /\ r.pc = "answered"
    /\ r.op \in {"createCaseStudy", "updateCaseStudy", "deleteCaseStudy",
                 "bulkUpdateCaseStudies"}
    /\ r.resp.ok
    /\ r.resp.body.success

\* C37: a completed create, update, delete or bulk-update request leaves
\* the list and the per-id records of the remote store in agreement: an id
\* has a per-id record exactly when the list holds it, with equal copies
C37_ListAndItemsAgree ==
  [][(ListMatchesItems(kvList, kvItem) /\ WriteCompleted)
       => ListMatchesItems(kvList', kvItem')]_vars

----------------------------------------------------------------------------
(* The remote store's write handlers step by step: every await of a kv     *)
(* call is a point where another handler can run                           *)

MaxHandlers == 2

ServerOps == {"createCaseStudy", "updateCaseStudy", "deleteCaseStudy"}

\* the ids requests ask for: the seed record and the first created one
ServerIds == {1, NewId(0)}

\* the store at the start: the seed, or the seed and one created record
ServerSeeds ==
  {[list |-> SeedStore, item |-> PutItems(EmptyMap, SeedStore), wc |-> 0],
   LET h == PostHandler(SeedStore, PutItems(EmptyMap, SeedStore), 0)
   IN [list |-> h.list, item |-> h.item, wc |-> 1]}

ServerError(op) ==
  Http(500, JsonBody(FALSE, "none", <<>>, HandlerErrorText(op)))

InitServer ==
  /\ now = TickMs
  /\ cache = EmptyMap
  /\ pending = {}
  /\ nfetch = 0
  /\ written = [k \in CacheKeys |-> NoWrite]
  /\ localStore = Mirror(TRUE, <<>>)
  /\ sync = NoSync
  /\ calls = <<>>
  /\ requests = {}
  /\ nreq = 0
  /\ \E s \in ServerSeeds : kvList = s.list /\ kvItem = s.item /\ wcount = s.wc
  /\ handlers = {}
  /\ operations = <<>>
  /\ starts = EmptyMap
  /\ nextOp = 0
  /\ metrics = <<>>
  /\ measuring = {}
  /\ nmeasure = 0
  /\ healthCache = NoHealth
  /\ floor = [i \in 1..MaxId |-> 0]
  /\ last = Quiet("init")

serverFrame == <<now, cache, cacheModelVars, requests, nreq, operations,
                 starts, nextOp, metrics, perfVars, healthCache, floor,
                 syncVars>>

\* a request reaches its route handler
ServerBegin(op, id) ==
  /\ Cardinality(handlers) < MaxHandlers
  /\ handlers' = handlers \cup
       {[hid |-> Cardinality(handlers) + 1, op |-> op, id |-> id,
         pc |-> "start", updatedCases |-> <<>>, resp |-> NoResp]}
  /\ last' = Quiet("server")
  /\ UNCHANGED <<kvList, kvItem, wcount, serverFrame>>

\* await kv.get("case_studies") and the synchronous code up to the next
\* await: the new list is computed from the list read here; a missing id
\* answers 404
ServerKvGet(h) ==
  /\ h \in handlers
  /\ h.pc = "start"
  /\ LET d == Handler(h.op, h.id, <<>>, kvList, kvItem, wcount)
     IN handlers' = (handlers \ {h}) \cup
          {[h EXCEPT !.pc = IF d.wrote THEN "got" ELSE "done",
                     !.updatedCases = d.list,
                     !.resp = d.resp]}
  /\ wcount' = wcount + 1
  /\ last' = Quiet("server")
  /\ UNCHANGED <<kvList, kvItem, serverFrame>>

\* await kv.set("case_studies", ...)
ServerKvSetList(h) ==
  /\ h \in handlers
  /\ h.pc = "got"
  /\ kvList' = h.updatedCases
  /\ handlers' = (handlers \ {h}) \cup {[h EXCEPT !.pc = "listSet"]}
  /\ last' = Quiet("server")
  /\ UNCHANGED <<kvItem, wcount, serverFrame>>

\* await kv.set(`case_study_${id}`, ...) or kv.del(`case_study_${id}`),
\* then the success answer
ServerKvSetItem(h) ==
  /\ h \in handlers
  /\ h.pc = "listSet"
  /\ kvItem' = IF h.op = "deleteCaseStudy"
               THEN [k \in (DOMAIN kvItem) \ {h.id} |-> kvItem[k]]
               ELSE PutItem(kvItem, h.resp.body.data[1])
  /\ handlers' = (handlers \ {h}) \cup {[h EXCEPT !.pc = "done"]}
  /\ last' = Quiet("server")
  /\ UNCHANGED <<kvList, wcount, serverFrame>>

\* the kv call the handler is at throws: the catch block answers 500
ServerKvThrow(h) ==
  /\ h \in handlers
  /\ h.pc \in {"start", "got", "listSet"}
  /\ handlers' = (handlers \ {h}) \cup
       {[h EXCEPT !.pc = "done", !.resp = ServerError(h.op)]}
  /\ last' = Quiet("server")
  /\ UNCHANGED <<kvList, kvItem, wcount, serverFrame>>

NextServer ==
  \/ \E op \in ServerOps, id \in ServerIds : ServerBegin(op, id)
  \/ \E h \in handlers : ServerKvGet(h)
  \/ \E h \in handlers : ServerKvSetList(h)
  \/ \E h \in handlers : ServerKvSetItem(h)
  \/ \E h \in handlers : ServerKvThrow(h)

SpecServer == InitServer /\ [][NextServer]_vars

AnsweredSuccess(h) == h.pc = "done" /\ h.resp.ok /\ h.resp.body.success

\* the record a handler creates, updates or deletes
TargetId(h) ==
  IF h.op = "createCaseStudy" THEN h.resp.body.data[1].id ELSE h.id

\* the list shows the handler's write: the created or updated record is in
\* it as answered, the deleted id is not in it
Reflected(h, list) ==
  IF h.op = "deleteCaseStudy"
  THEN \A i \in 1..Len(list) : list[i].id # h.id
  ELSE \E i \in 1..Len(list) : list[i] = h.resp.body.data[1]

\* C38: when two create, update or delete requests on different records
\* have both answered success, however their kv reads and writes were
\* interleaved, the list of the store shows both writes
C38_NoLostWrite ==
  \A h1, h2 \in handlers :
    (/\ AnsweredSuccess(h1)
     /\ AnsweredSuccess(h2)
     /\ TargetId(h1) # TargetId(h2))
      => Reflected(h1, kvList) /\ Reflected(h2, kvList)

----------------------------------------------------------------------------
(* Overlapping measurements of one name, checked under SpecPerf *)

\* C39: a measureAsync call that ends a measurement ends its own: the
\* duration recorded when its asyncFn settles is the time of the settling
\* minus the time this call started, also when another measurement of the
\* same name is open
C39_EndsOwnMeasurement ==
  (last.op = "measureAsync" /\ last.ended # NoDuration)
    => last.ended = now - last.startTime

====
